---- MODULE Spec2Model ----
(***************************************************************************)
(* A model of the adaptive coaching engine of md-scanner                   *)
(* (src/md_scanner/learning): the behaviour store (BehaviorTracker), the   *)
(* skill assessor (DifficultyDetector) and the coach orchestrator          *)
(* (AdaptiveCoach), with the files they persist.                           *)
(*                                                                         *)
(* Conventions.                                                            *)
(*  - Python floats in [0,1] (scores, confidences, intensities) are        *)
(*    fixed-point integers in units of 1/SCALE; a division rounds down.    *)
(*  - The wall clock `now` counts minutes; a handler reads it once.        *)
(*  - An Optional value is a sequence of length 0 (None) or 1.             *)
(*  - A dict is a function whose DOMAIN is the set of its keys.            *)
(*  - A file, and a value json.load returned, is a record with a `kind`:   *)
(*    "absent", "malformed" (not JSON), "wrongshape" (JSON of another type *)
(*    than the record expected) or "json" (with its `data`).               *)
(*  - Strings that the code only passes through (queries, paths, evidence  *)
(*    texts, reasons) are left out; a file name is the record of the       *)
(*    features the code reads off it.                                      *)
(***************************************************************************)
EXTENDS Integers, Sequences, FiniteSets, TLC

\* ---------------------------------------------------------------- bounds
\* The clock stops at MaxTime minutes.
MaxTime == 5
\* Events the running model records before record_* is no longer called.
MaxRecorded == 2
\* Entries a skill's persisted history may hold before a further assessment
\* is no longer requested.
MaxHistory == 4
\* The suggestion counters stop at MaxCount.
MaxCount == 1
\* Skills the override map may name before a further skill is overridden.
MaxOverrides == 1
\* Sessions the session list may hold before a further session is opened.
MaxSessions == 1
\* The largest pre-existing search log drawn by InitSearch.
MaxSearches == 27
\* Minutes the clock of the long runs may advance past the first reading.
MaxLater == 15

\* ------------------------------------------------------- program constants
SCALE == 1000
CACHE_MINUTES == 5
WINDOW_DAYS == 30
WINDOW_MINUTES == WINDOW_DAYS * 24 * 60
HISTORY_CAP == 100
HISTORY_DAYS == 30
TREND_CAP == 10
LAST_N == 10

INTENSITY_FULL == 1000
INTENSITY_REGULAR == 700
INTENSITY_OCCASIONAL == 300
INTENSITY_MINIMAL == 100
INTENSITY_NONE == 0

SKILL_STRUGGLING == 400
SKILL_LEARNING == 700
SKILL_PROFICIENT == 850

THRESHOLD_STRUGGLING == 400

\* The first clock reading: one window after the oldest timestamp, 0.
T0 == WINDOW_MINUTES

Skills == {"search_ability", "naming_consistency", "folder_organization", "file_management"}
SkillOrder == <<"search_ability", "naming_consistency", "folder_organization", "file_management">>

\* ------------------------------------------------------------ arithmetic
Min2(a, b) == IF a < b THEN a ELSE b
Max2(a, b) == IF a > b THEN a ELSE b
Ratio(n, d) == (n * SCALE) \div d

RECURSIVE SumSeq(_)
SumSeq(s) == IF s = <<>> THEN 0 ELSE Head(s) + SumSeq(Tail(s))

\* seq[-n:]
LastN(s, n) == IF Len(s) <= n THEN s ELSE SubSeq(s, Len(s) - n + 1, Len(s))
\* seq[:n]
FirstN(s, n) == IF Len(s) <= n THEN s ELSE SubSeq(s, 1, n)

RECURSIVE MaxOfSet(_)
MaxOfSet(S) ==
    LET x == CHOOSE y \in S : TRUE
    IN IF S = {x} THEN x ELSE Max2(x, MaxOfSet(S \ {x}))

\* -------------------------------------------------------- persisted values
Absent == [kind |-> "absent"]
Malformed == [kind |-> "malformed"]
WrongShape == [kind |-> "wrongshape"]
Json(d) == [kind |-> "json", data |-> d]
IsJson(v) == v.kind = "json"

\* ------------------------------------------------------------- the events
NoName == [present |-> FALSE, underscore |-> FALSE, hyphen |-> FALSE,
           lowercase |-> FALSE, prefix |-> ""]
FileName(us, hy, lo, pre) ==
    [present |-> TRUE, underscore |-> us, hyphen |-> hy, lowercase |-> lo, prefix |-> pre]

SearchEvent(t, clicked, refined, sid) ==
    [timestamp |-> t, clicked_result |-> clicked, refined_query |-> refined, session_id |-> sid]

\* depth is len(Path(file_path).parts), 0 for an empty file_path
FileAccessEvent(t, atype, depth, folder, ftype, name, sid) ==
    [timestamp |-> t, access_type |-> atype, depth |-> depth, folder |-> folder,
     file_type |-> ftype, new_name |-> name, session_id |-> sid]

NavigationEvent(t, secs, sid) ==
    [timestamp |-> t, time_spent_seconds |-> secs, session_id |-> sid]

OrganizationDecision(t, dtype) ==
    [timestamp |-> t, decision_type |-> dtype]

EmptyEvents == [searches |-> <<>>, file_accesses |-> <<>>, navigation |-> <<>>, decisions |-> <<>>]

EmptyStats ==
    [total_searches |-> 0, successful_searches |-> 0, total_files_accessed |-> 0,
     renames_performed |-> 0, suggestions_accepted |-> 0, suggestions_rejected |-> 0,
     suggestions_customized |-> 0, first_seen |-> <<>>, last_seen |-> <<>>]

UserSession(sid, t) ==
    [session_id |-> sid, start_time |-> t, end_time |-> <<>>,
     searches |-> <<>>, file_accesses |-> <<>>, navigation |-> <<>>, decisions |-> <<>>]

\* ------------------------------------------------------- tracker analytics
InWindow(e, t) == e.timestamp > t - WINDOW_MINUTES

CalculateSuccessRate(searches) ==
    IF searches = <<>> THEN 0
    ELSE Ratio(Len(SelectSeq(searches, LAMBDA s : s.clicked_result)), Len(searches))

GetSearchPatterns(ev, t) ==
    LET recent == SelectSeq(ev.searches, LAMBDA s : InWindow(s, t))
        failed == SelectSeq(recent, LAMBDA s : ~s.clicked_result)
        refined == SelectSeq(recent, LAMBDA s : s.refined_query)
    IN [total_searches |-> Len(recent),
        failed_queries |-> LastN(failed, LAST_N),
        search_refinements |-> LastN(refined, LAST_N),
        success_rate |-> CalculateSuccessRate(recent)]

AccessTypes == {"open", "preview", "edit", "rename", "move", "delete"}

GetFilePatterns(ev, t) ==
    LET recent == SelectSeq(ev.file_accesses, LAMBDA a : InWindow(a, t))
        used == {recent[i].access_type : i \in DOMAIN recent}
    IN [total_accesses |-> Len(recent),
        by_access_type |-> [k \in used |-> Len(SelectSeq(recent, LAMBDA a : a.access_type = k))]]

\* The count of the most frequent prefix (uses_prefixes[0].count), 0 if none.
TopPrefixCount(renames) ==
    LET pres == {renames[i].new_name.prefix : i \in DOMAIN renames} \ {""}
    IN IF pres = {} THEN 0
       ELSE MaxOfSet({Len(SelectSeq(renames, LAMBDA a : a.new_name.prefix = p)) : p \in pres})

GetNamingPreferences(ev) ==
    LET renames == SelectSeq(ev.file_accesses,
                             LAMBDA a : a.access_type = "rename" /\ a.new_name.present)
    IN [sample_size |-> Len(renames),
        uses_underscores |-> Len(SelectSeq(renames, LAMBDA a : a.new_name.underscore)),
        uses_hyphens |-> Len(SelectSeq(renames, LAMBDA a : a.new_name.hyphen)),
        uses_lowercase |-> Len(SelectSeq(renames, LAMBDA a : a.new_name.lowercase)),
        top_prefix_count |-> TopPrefixCount(renames)]

GetSuggestionEffectiveness(st) ==
    LET accepted == st.suggestions_accepted
        rejected == st.suggestions_rejected
        customized == st.suggestions_customized
        total == accepted + rejected + customized
    IN IF total = 0
       THEN [total_suggestions |-> 0, acceptance_rate |-> 0, rejection_rate |-> 0,
             customization_rate |-> 0]
       ELSE [total_suggestions |-> total,
             acceptance_rate |-> Ratio(accepted, total),
             rejection_rate |-> Ratio(rejected, total),
             customization_rate |-> Ratio(customized, total)]

\* ---------------------------------------------------------- the assessor
Assessment(name, score, conf, trend, t, n) ==
    [skill_name |-> name, score |-> score, confidence |-> conf, trend |-> trend,
     last_updated |-> t, samples_count |-> n]

\* An assessment without enough samples that claims some confidence.
NotEnoughConfident(name, t, n) == Assessment(name, SCALE \div 2, SCALE \div 5, "new", t, n)

\* The assessment of a skill that has fewer samples than its minimum.
NotEnough(name, t, n) == Assessment(name, SCALE \div 2, SCALE \div 10, "new", t, n)

\* A trend that is decided from the second score on.
TrendOfTwo(history) ==
    IF Len(history) < 2 THEN "new"
    ELSE LET recent == LastN(history, 3)
             older == IF Len(history) > 3 THEN SubSeq(history, 1, Len(history) - 3) ELSE recent
             lhs == 10 * (SumSeq(recent) * Len(older) - SumSeq(older) * Len(recent))
             rhs == Len(recent) * Len(older) * SCALE
         IN IF lhs > rhs THEN "improving"
            ELSE IF lhs < -rhs THEN "regressing"
            ELSE "stable"

\* diff > 0.1 and diff < -0.1 for diff = mean(recent) - mean(older), decided exactly.
TrendOf(history) ==
    IF Len(history) < 3 THEN "new"
    ELSE LET recent == LastN(history, 3)
             older == IF Len(history) > 3 THEN SubSeq(history, 1, Len(history) - 3) ELSE recent
             lhs == 10 * (SumSeq(recent) * Len(older) - SumSeq(older) * 3)
             rhs == 3 * Len(older) * SCALE
         IN IF lhs > rhs THEN "improving"
            ELSE IF lhs < -rhs THEN "regressing"
            ELSE "stable"

\* _calculate_trend appends the score to the list it read, stores the last ten of
\* it, and goes on comparing over the list it appended to.  The appended entry's
\* timestamp is never read and is left out.
CalculateTrend(hist, current_score) ==
    LET history == Append(hist, current_score)
    IN [trend |-> TrendOf(history), hist |-> LastN(history, TREND_CAP)]

SearchScore(patterns) ==
    LET total == patterns.total_searches
        refinement_rate == Ratio(Len(patterns.search_refinements), total)
        failure_rate == Ratio(Len(patterns.failed_queries), total)
    IN (patterns.success_rate * 500 + (SCALE - refinement_rate) * 250
        + (SCALE - failure_rate) * 250) \div SCALE

\* Each _assess_* returns the assessment and the skill's trend history after it.
\* The assessment of a skill with enough samples, given the outcome tr of
\* _calculate_trend.
ScoredWith(name, score, conf, tr, t, n) ==
    [a |-> Assessment(name, score, conf, tr.trend, t, n), hist |-> tr.hist]

Scored(name, score, conf, hist, t, n) ==
    ScoredWith(name, score, conf, CalculateTrend(hist, score), t, n)

\* _assess_search_ability on the patterns the tracker returned.
AssessSearchOn(patterns, hist, t) ==
    IF patterns.total_searches < 3
    THEN [a |-> NotEnough("search_ability", t, patterns.total_searches), hist |-> hist]
    ELSE Scored("search_ability", SearchScore(patterns),
                Min2(Ratio(patterns.total_searches, 20), SCALE), hist, t,
                patterns.total_searches)

AssessSearchAbility(ev, hist, t) == AssessSearchOn(GetSearchPatterns(ev, t), hist, t)

NamingScore(p) ==
    LET n == p.sample_size
        underscore_pct == Ratio(p.uses_underscores, n)
        hyphen_pct == Ratio(p.uses_hyphens, n)
        separator_consistency ==
            Max2(Max2(underscore_pct, hyphen_pct), SCALE - underscore_pct - hyphen_pct)
        lowercase_pct == Ratio(p.uses_lowercase, n)
        case_consistency == Max2(lowercase_pct, SCALE - lowercase_pct)
        has_prefixes == p.top_prefix_count >= 3
    IN (separator_consistency * 400 + case_consistency * 300) \div SCALE
       + (IF has_prefixes THEN 300 ELSE 150)

\* _assess_naming_consistency on the preferences the tracker returned.
AssessNamingOn(p, hist, t) ==
    IF p.sample_size < 5
    THEN [a |-> NotEnough("naming_consistency", t, p.sample_size), hist |-> hist]
    ELSE Scored("naming_consistency", NamingScore(p),
                Min2(Ratio(p.sample_size, 15), SCALE), hist, t, p.sample_size)

AssessNamingConsistency(ev, hist, t) == AssessNamingOn(GetNamingPreferences(ev), hist, t)

\* The number of folders a file type occurs in, for the most scattered type.
MaxScatter(accesses) ==
    LET withPath == {i \in DOMAIN accesses : accesses[i].depth > 0}
        types == {accesses[i].file_type : i \in withPath}
        foldersOf(ty) == {accesses[i].folder : i \in {j \in withPath : accesses[j].file_type = ty}}
    IN MaxOfSet({Cardinality(foldersOf(ty)) : ty \in types})

FolderScore(ev) ==
    LET events == ev.navigation
        last20 == LastN(events, 20)
        navSum == SumSeq([i \in DOMAIN last20 |-> last20[i].time_spent_seconds])
        \* min(avg_nav_time / 60, 1.0)
        time_score == SCALE - Min2(Ratio(navSum, 60 * Min2(Len(events), 20)), SCALE)
        paths == SelectSeq(LastN(ev.file_accesses, 50), LAMBDA a : a.depth > 0)
        depthSum == SumSeq([i \in DOMAIN paths |-> paths[i].depth])
        \* min((avg_depth - 3) / 7, 1.0)
        depth_score ==
            IF paths # <<>>
            THEN SCALE - Min2(Ratio(depthSum - 3 * Len(paths), 7 * Len(paths)), SCALE)
            ELSE SCALE \div 2
        last100 == LastN(ev.file_accesses, 100)
        scatter_score ==
            IF \E i \in DOMAIN last100 : last100[i].depth > 0
            THEN SCALE - Min2(Ratio(MaxScatter(last100) - 3, 10), SCALE)
            ELSE SCALE \div 2
    IN (time_score * 300 + depth_score * 350 + scatter_score * 350) \div SCALE

AssessFolderOrganization(ev, hist, t) ==
    IF Len(ev.navigation) < 5
    THEN [a |-> NotEnough("folder_organization", t, Len(ev.navigation)), hist |-> hist]
    ELSE Scored("folder_organization", FolderScore(ev),
                Min2(Ratio(Len(ev.navigation), 20), SCALE), hist, t, Len(ev.navigation))

FileManagementScore(fp, eff) ==
    LET by == fp.by_access_type
        renames == IF "rename" \in DOMAIN by THEN by["rename"] ELSE 0
        opens == IF "open" \in DOMAIN by THEN by["open"] ELSE 1
        \* min(rename_ratio / 0.3, 1.0)
        rename_score == SCALE - Min2(Ratio(renames * 10, 3 * Max2(opens, 1)), SCALE)
        suggestion_score ==
            IF eff.total_suggestions > 0
            THEN (eff.acceptance_rate * 700 + eff.customization_rate * 300) \div SCALE
            ELSE SCALE \div 2
        operation_types == Cardinality({k \in DOMAIN by : by[k] > 0})
        variety_score == Min2(Ratio(operation_types, 4), SCALE)
    IN (rename_score * 400 + suggestion_score * 350 + variety_score * 250) \div SCALE

\* _assess_file_management on the file patterns the tracker returned.
AssessFileManagementOn(fp, st, hist, t) ==
    IF fp.total_accesses < 5
    THEN [a |-> NotEnough("file_management", t, fp.total_accesses), hist |-> hist]
    ELSE Scored("file_management", FileManagementScore(fp, GetSuggestionEffectiveness(st)),
                Min2(Ratio(fp.total_accesses, 30), SCALE), hist, t, fp.total_accesses)

AssessFileManagement(ev, st, hist, t) ==
    AssessFileManagementOn(GetFilePatterns(ev, t), st, hist, t)

\* sorted(struggles, key=score): a stable insertion sort.
RECURSIVE InsertByScore(_, _)
InsertByScore(sorted, x) ==
    IF sorted = <<>> THEN <<x>>
    ELSE IF x.score < Head(sorted).score THEN <<x>> \o sorted
    ELSE <<Head(sorted)>> \o InsertByScore(Tail(sorted), x)

RECURSIVE SortByScore(_)
SortByScore(s) ==
    IF s = <<>> THEN <<>>
    ELSE InsertByScore(SortByScore(SubSeq(s, 1, Len(s) - 1)), s[Len(s)])

\* The assessments in the order of the skills dict.
InOrder(skills) == [i \in 1..Len(SkillOrder) |-> skills[SkillOrder[i]]]

IdentifyStruggles(skills) ==
    LET hit == SelectSeq(InOrder(skills),
                         LAMBDA a : a.score < THRESHOLD_STRUGGLING /\ a.confidence > 300)
    IN SortByScore([i \in DOMAIN hit |->
          [skill |-> hit[i].skill_name, score |-> hit[i].score,
           severity |-> IF hit[i].score < 250 THEN "high" ELSE "medium"]])

IdentifyImprovements(skills) ==
    LET hit == SelectSeq(InOrder(skills), LAMBDA a : a.trend = "improving")
    IN [i \in DOMAIN hit |-> [skill |-> hit[i].skill_name, current_score |-> hit[i].score]]

IdentifyRegressions(skills) ==
    LET hit == SelectSeq(InOrder(skills),
                         LAMBDA a : a.trend = "regressing" /\ a.confidence > 400)
    IN [i \in DOMAIN hit |-> [skill |-> hit[i].skill_name, current_score |-> hit[i].score]]

\* One tag per recommendation text: the skill it advises on, or the skill it
\* encourages.
GenerateRecommendations(skills, struggles) ==
    LET top == FirstN(struggles, 2)
        advice == [i \in DOMAIN top |-> [kind |-> "advice", skill |-> top[i].skill]]
        improving == SelectSeq(InOrder(skills), LAMBDA a : a.trend = "improving")
    IN IF improving # <<>>
       THEN Append(advice, [kind |-> "encourage", skill |-> improving[1].skill_name])
       ELSE advice

OverallSkill(skills) ==
    LET valid == SelectSeq(InOrder(skills), LAMBDA a : a.confidence > 300)
    IN IF valid # <<>>
       THEN SumSeq([i \in DOMAIN valid |-> valid[i].score * valid[i].confidence])
            \div SumSeq([i \in DOMAIN valid |-> valid[i].confidence])
       ELSE SCALE \div 2

\* The DifficultyReport over the assessments, given the struggles found in them.
ReportWith(skills, struggles) ==
    [overall_skill |-> OverallSkill(skills),
     skills |-> skills,
     struggles |-> struggles,
     improvements |-> IdentifyImprovements(skills),
     regressions |-> IdentifyRegressions(skills),
     recommendations |-> GenerateRecommendations(skills, struggles)]

ReportOf(skills) == ReportWith(skills, IdentifyStruggles(skills))

\* The skills dict of the four assessments.
SkillsDict(a1, a2, a3, a4) ==
    [k \in Skills |->
        CASE k = "search_ability" -> a1
          [] k = "naming_consistency" -> a2
          [] k = "folder_organization" -> a3
          [] OTHER -> a4]

\* assess_all_skills once the first three skills are assessed and the fourth
\* raised.
ThreeAssessed(s1, s2, s3, hist) ==
    [raised |-> TRUE,
     hist |-> [hist EXCEPT !["search_ability"] = s1.hist,
                           !["naming_consistency"] = s2.hist,
                           !["folder_organization"] = s3.hist]]

\* assess_all_skills once the four skills are assessed.
AllAssessed(s1, s2, s3, s4, hist) ==
    [raised |-> FALSE,
     hist |-> [hist EXCEPT !["search_ability"] = s1.hist,
                           !["naming_consistency"] = s2.hist,
                           !["folder_organization"] = s3.hist,
                           !["file_management"] = s4.hist],
     report |-> ReportOf(SkillsDict(s1.a, s2.a, s3.a, s4.a))]

\* assess_all_skills: the report and the detector's trend history after it.  With
\* stats that are no JSON object get_suggestion_effectiveness raises inside
\* _assess_file_management, after the first three skills were assessed.
AssessAllSkills(ev, st, hist, t) ==
    IF ~IsJson(st)
    THEN ThreeAssessed(AssessSearchAbility(ev, hist["search_ability"], t),
                       AssessNamingConsistency(ev, hist["naming_consistency"], t),
                       AssessFolderOrganization(ev, hist["folder_organization"], t),
                       hist)
    ELSE AllAssessed(AssessSearchAbility(ev, hist["search_ability"], t),
                     AssessNamingConsistency(ev, hist["naming_consistency"], t),
                     AssessFolderOrganization(ev, hist["folder_organization"], t),
                     AssessFileManagement(ev, st.data, hist["file_management"], t),
                     hist)

\* ------------------------------------------------------------- the state
VARIABLES
    now,            \* the wall clock, in minutes
    alive,          \* an AdaptiveCoach instance exists in the running process
    events,         \* tracker.events
    sessions,       \* tracker.sessions, as json.load returned it or as built since
    stats,          \* tracker.stats, likewise
    tSession,       \* tracker.current_session
    eventsFile,     \* behavior_events.json
    sessionsFile,   \* sessions.json
    statsFile,      \* user_stats.json
    state,          \* coach.state, the CoachingState
    stateFile,      \* coaching_state.json
    cSession,       \* coach.current_session
    cachedReport,   \* coach._cached_report
    cacheTime,      \* coach._cache_time
    trendHist,      \* detector.skill_history
    ret             \* the last call: its name, how it ended, what it returned

vars == <<now, alive, events, sessions, stats, tSession, eventsFile, sessionsFile,
          statsFile, state, stateFile, cSession, cachedReport, cacheTime, trendHist, ret>>

trackerMem == <<events, sessions, stats, tSession>>
trackerFiles == <<eventsFile, sessionsFile, statsFile>>
coachMem == <<state, cSession, cachedReport, cacheTime, trendHist>>

\* ------------------------------------------------------------------ dicts
EmptyDict == <<>>
Get(d, k, default) == IF k \in DOMAIN d THEN d[k] ELSE default
Put(d, k, v) == [x \in DOMAIN d \cup {k} |-> IF x = k THEN v ELSE d[x]]
Del(d, k) == IF DOMAIN d \ {k} = {} THEN EmptyDict ELSE [x \in DOMAIN d \ {k} |-> d[x]]

\* --------------------------------------------------------- coaching state
CoachingState(offered, accepted, dismissed, last, history, overrides) ==
    [total_suggestions_offered |-> offered, total_suggestions_accepted |-> accepted,
     total_suggestions_dismissed |-> dismissed, last_assessment |-> last,
     skill_history |-> history, fade_out_overrides |-> overrides]

DefaultState == CoachingState(0, 0, 0, <<>>, EmptyDict, EmptyDict)

\* The object _save_state dumps.
StateJson(st) ==
    [total_suggestions_offered |-> st.total_suggestions_offered,
     total_suggestions_accepted |-> st.total_suggestions_accepted,
     total_suggestions_dismissed |-> st.total_suggestions_dismissed,
     last_assessment |-> st.last_assessment,
     skill_history |-> st.skill_history,
     fade_out_overrides |-> st.fade_out_overrides]

\* _save_state: open(state_file, 'w') and json.dump, run to its end.
SaveState(st) == Json(StateJson(st))

\* A _load_state that leaves the override map at its default.
LoadStateNoOverrides(file) ==
    CASE file.kind = "absent" -> [raised |-> FALSE, state |-> DefaultState]
      [] file.kind = "malformed" -> [raised |-> FALSE, state |-> DefaultState]
      [] file.kind = "wrongshape" -> [raised |-> TRUE, state |-> DefaultState]
      [] OTHER ->
            [raised |-> FALSE,
             state |-> CoachingState(file.data.total_suggestions_offered,
                                     file.data.total_suggestions_accepted,
                                     file.data.total_suggestions_dismissed,
                                     file.data.last_assessment,
                                     file.data.skill_history,
                                     EmptyDict)]

\* _load_state: a missing file and a JSONDecodeError give the default state; on
\* JSON that is no object data.get raises AttributeError, which is not caught.
LoadState(file) ==
    CASE file.kind = "absent" -> [raised |-> FALSE, state |-> DefaultState]
      [] file.kind = "malformed" -> [raised |-> FALSE, state |-> DefaultState]
      [] file.kind = "wrongshape" -> [raised |-> TRUE, state |-> DefaultState]
      [] OTHER ->
            [raised |-> FALSE,
             state |-> CoachingState(file.data.total_suggestions_offered,
                                     file.data.total_suggestions_accepted,
                                     file.data.total_suggestions_dismissed,
                                     file.data.last_assessment,
                                     file.data.skill_history,
                                     file.data.fade_out_overrides)]

\* _load_json: the default for a missing or unparsable file, and otherwise
\* whatever json.load returned, of whatever type.
LoadJson(file, default) ==
    CASE file.kind = "absent" -> Json(default)
      [] file.kind = "malformed" -> Json(default)
      [] OTHER -> file

EmptyTrend == [k \in Skills |-> <<>>]

\* --------------------------------------------------- the cached report
\* A cache whose lifetime is no time at all.
CacheNeverFresh(t) ==
    /\ cachedReport # <<>>
    /\ cacheTime # <<>>
    /\ t - cacheTime[1] < 0

\* A cache that still counts as fresh when exactly the cache duration has passed.
CacheFreshInclusive(t) ==
    /\ cachedReport # <<>>
    /\ cacheTime # <<>>
    /\ t - cacheTime[1] <= CACHE_MINUTES

CacheFresh(t) ==
    /\ cachedReport # <<>>
    /\ cacheTime # <<>>
    /\ t - cacheTime[1] < CACHE_MINUTES

\* A skill history that keeps its first 100 entries.
AppendHistoryKeepsOldest(history, report, t) ==
    [k \in DOMAIN history \cup Skills |->
        IF k \in Skills
        THEN FirstN(Append(Get(history, k, <<>>),
                           [date |-> t, score |-> report.skills[k].score,
                            trend |-> report.skills[k].trend]),
                    HISTORY_CAP)
        ELSE history[k]]

\* The skill history after one report: an entry per skill, the last 100 kept.
AppendHistory(history, report, t) ==
    [k \in DOMAIN history \cup Skills |->
        IF k \in Skills
        THEN LastN(Append(Get(history, k, <<>>),
                          [date |-> t, score |-> report.skills[k].score,
                           trend |-> report.skills[k].trend]),
                   HISTORY_CAP)
        ELSE history[k]]

\* _get_difficulty_report after a report r was computed at time t and the
\* coaching state st updated with it: the cache is filled and the state saved.
Reported(r, st, t) ==
    [raised |-> FALSE, report |-> r.report, miss |-> TRUE,
     cachedReport |-> <<r.report>>, cacheTime |-> <<t>>, state |-> st,
     trendHist |-> r.hist, stateFile |-> SaveState(st)]

\* _get_difficulty_report on a stale cache, given the outcome r of
\* assess_all_skills.
Assessed(r, t) ==
    IF r.raised
    THEN [raised |-> TRUE, miss |-> TRUE,
          cachedReport |-> cachedReport, cacheTime |-> cacheTime, state |-> state,
          trendHist |-> r.hist, stateFile |-> stateFile]
    ELSE Reported(r, [state EXCEPT !.skill_history = AppendHistory(@, r.report, t),
                                   !.last_assessment = <<t>>], t)

\* _get_difficulty_report at time t: whether it raised, the report it returned,
\* and the cache, coaching state, trend history and state file it leaves.
GetDifficultyReport(t) ==
    IF CacheFresh(t)
    THEN [raised |-> FALSE, report |-> cachedReport[1], miss |-> FALSE,
          cachedReport |-> cachedReport, cacheTime |-> cacheTime, state |-> state,
          trendHist |-> trendHist, stateFile |-> stateFile]
    ELSE Assessed(AssessAllSkills(events, stats, trendHist, t), t)

\* A further assessment is requested only while the histories hold few entries
\* made since the first clock reading.
MayAssess(t) ==
    \/ CacheFresh(t)
    \/ /\ \A k \in DOMAIN state.skill_history :
             Len(SelectSeq(state.skill_history[k], LAMBDA e : e.date >= T0)) < MaxHistory
       /\ \A k \in Skills : Len(trendHist[k]) < MaxHistory

\* ------------------------------------------------------------- intensity
\* The intensity with the trend's adjustment left unclamped.
CalculateIntensityUnclamped(a) ==
    LET base == IF a.score < SKILL_STRUGGLING THEN [i |-> INTENSITY_FULL, level |-> "struggling"]
                ELSE IF a.score < SKILL_LEARNING THEN [i |-> INTENSITY_REGULAR, level |-> "learning"]
                ELSE IF a.score < SKILL_PROFICIENT THEN [i |-> INTENSITY_OCCASIONAL, level |-> "proficient"]
                ELSE [i |-> INTENSITY_MINIMAL, level |-> "mastered"]
        adjusted == IF a.trend = "regressing" THEN base.i + 200
                    ELSE IF a.trend = "improving" THEN base.i - 100
                    ELSE base.i
        level == IF a.trend = "regressing" /\ base.level = "mastered" THEN "proficient"
                 ELSE base.level
    IN [intensity |-> IF a.confidence < 500 THEN Max2(adjusted, INTENSITY_REGULAR) ELSE adjusted,
        level |-> level]

\* The intensity with the base intensities of the two upper bands exchanged.
CalculateIntensityBandsSwapped(a) ==
    LET base == IF a.score < SKILL_STRUGGLING THEN [i |-> INTENSITY_FULL, level |-> "struggling"]
                ELSE IF a.score < SKILL_LEARNING THEN [i |-> INTENSITY_REGULAR, level |-> "learning"]
                ELSE IF a.score < SKILL_PROFICIENT THEN [i |-> INTENSITY_MINIMAL, level |-> "proficient"]
                ELSE [i |-> INTENSITY_OCCASIONAL, level |-> "mastered"]
        adjusted == IF a.trend = "regressing" THEN Min2(base.i + 200, INTENSITY_FULL)
                    ELSE IF a.trend = "improving" THEN Max2(base.i - 100, INTENSITY_NONE)
                    ELSE base.i
        level == IF a.trend = "regressing" /\ base.level = "mastered" THEN "proficient"
                 ELSE base.level
    IN [intensity |-> IF a.confidence < 500 THEN Max2(adjusted, INTENSITY_REGULAR) ELSE adjusted,
        level |-> level]

\* The intensity with a regressing skill treated like an improving one.
CalculateIntensityRegressingFades(a) ==
    LET base == IF a.score < SKILL_STRUGGLING THEN [i |-> INTENSITY_FULL, level |-> "struggling"]
                ELSE IF a.score < SKILL_LEARNING THEN [i |-> INTENSITY_REGULAR, level |-> "learning"]
                ELSE IF a.score < SKILL_PROFICIENT THEN [i |-> INTENSITY_OCCASIONAL, level |-> "proficient"]
                ELSE [i |-> INTENSITY_MINIMAL, level |-> "mastered"]
        adjusted == IF a.trend \in {"regressing", "improving"}
                    THEN Max2(base.i - 100, INTENSITY_NONE)
                    ELSE base.i
    IN [intensity |-> IF a.confidence < 500 THEN Max2(adjusted, INTENSITY_REGULAR) ELSE adjusted,
        level |-> base.level]

\* _calculate_intensity without the step that gives more help at low confidence.
CalculateIntensityAnyConfidence(a) ==
    LET base == IF a.score < SKILL_STRUGGLING THEN [i |-> INTENSITY_FULL, level |-> "struggling"]
                ELSE IF a.score < SKILL_LEARNING THEN [i |-> INTENSITY_REGULAR, level |-> "learning"]
                ELSE IF a.score < SKILL_PROFICIENT THEN [i |-> INTENSITY_OCCASIONAL, level |-> "proficient"]
                ELSE [i |-> INTENSITY_MINIMAL, level |-> "mastered"]
        adjusted == IF a.trend = "regressing" THEN Min2(base.i + 200, INTENSITY_FULL)
                    ELSE IF a.trend = "improving" THEN Max2(base.i - 100, INTENSITY_NONE)
                    ELSE base.i
        level == IF a.trend = "regressing" /\ base.level = "mastered" THEN "proficient"
                 ELSE base.level
    IN [intensity |-> adjusted, level |-> level]

\* _calculate_intensity: the base intensity of the score's band, raised by 0.2
\* for a regressing skill and lowered by 0.1 for an improving one, and at least
\* 0.7 while the confidence is below 0.5.
CalculateIntensity(a) ==
    LET base == IF a.score < SKILL_STRUGGLING THEN [i |-> INTENSITY_FULL, level |-> "struggling"]
                ELSE IF a.score < SKILL_LEARNING THEN [i |-> INTENSITY_REGULAR, level |-> "learning"]
                ELSE IF a.score < SKILL_PROFICIENT THEN [i |-> INTENSITY_OCCASIONAL, level |-> "proficient"]
                ELSE [i |-> INTENSITY_MINIMAL, level |-> "mastered"]
        adjusted == IF a.trend = "regressing" THEN Min2(base.i + 200, INTENSITY_FULL)
                    ELSE IF a.trend = "improving" THEN Max2(base.i - 100, INTENSITY_NONE)
                    ELSE base.i
        level == IF a.trend = "regressing" /\ base.level = "mastered" THEN "proficient"
                 ELSE base.level
    IN [intensity |-> IF a.confidence < 500 THEN Max2(adjusted, INTENSITY_REGULAR) ELSE adjusted,
        level |-> level]

\* random.random() < intensity, for the draw r of the random source.
ShouldShowAtIntensity(intensity, r) == r < intensity

RandomDraws == {0, 500, 999}

\* ------------------------------------------------------------ results
Ret(op, outcome, value) == [op |-> op, outcome |-> outcome, value |-> value]
NoValue == <<>>

SuggestionResult(type, hasContent, intensity, level, show) ==
    [suggestion_type |-> type, has_content |-> hasContent, intensity |-> intensity,
     skill_level |-> level, should_show |-> show]

\* A coaching session that numbers itself instead of taking the store's id.
CoachingSessionOwnId(sid, t, snapshot) ==
    [session_id |-> sid + 1, started_at |-> t, skill_snapshot |-> snapshot,
     suggestions_offered |-> 0, suggestions_accepted |-> 0, suggestions_dismissed |-> 0]

CoachingSession(sid, t, snapshot) ==
    [session_id |-> sid, started_at |-> t, skill_snapshot |-> snapshot,
     suggestions_offered |-> 0, suggestions_accepted |-> 0, suggestions_dismissed |-> 0]

\* _save_data: the three files, each opened with 'w' and dumped, run to its end.
SaveData(ev, se, st) == [eventsFile |-> Json(ev), sessionsFile |-> se, statsFile |-> st]

\* _generate_session_id hashes the clock reading and the process id.
GenerateSessionId(t) == t

\* The stats after tracker.start_session.
StartStats(st, t) ==
    [st EXCEPT !.first_seen = IF @ = <<>> THEN <<t>> ELSE @, !.last_seen = <<t>>]

\* ------------------------------------------------------ session management
\* AdaptiveCoach.start_session.  tracker.start_session sets the tracker's session
\* and then reads stats['first_seen'], which raises on stats of another shape.
StartedOn(g, sid) ==
    /\ tSession' = <<UserSession(sid, now)>>
    /\ stats' = Json(StartStats(stats.data, now))
    /\ cachedReport' = g.cachedReport
    /\ cacheTime' = g.cacheTime
    /\ trendHist' = g.trendHist
    /\ state' = g.state
    /\ stateFile' = g.stateFile
    /\ cSession' = <<CoachingSession(sid, now, [k \in Skills |-> g.report.skills[k].score])>>
    /\ ret' = Ret("start_session", "returned", sid)
    /\ UNCHANGED <<now, alive, events, sessions, trackerFiles>>

StartSession ==
    /\ alive
    /\ MayAssess(now)
    /\ IsJson(sessions) => Len(sessions.data) < MaxSessions
    /\ IF ~IsJson(stats)
       THEN /\ tSession' = <<UserSession(GenerateSessionId(now), now)>>
            /\ ret' = Ret("start_session", "raised", NoValue)
            /\ UNCHANGED <<now, alive, events, sessions, stats, trackerFiles, coachMem, stateFile>>
       ELSE StartedOn(GetDifficultyReport(now), GenerateSessionId(now))

\* AdaptiveCoach.end_session, with BehaviorTracker.end_session inside it.
EndSession ==
    /\ alive
    /\ IF cSession = <<>>
       THEN /\ ret' = Ret("end_session", "returned", [error |-> "No active session"])
            /\ UNCHANGED <<now, alive, trackerMem, trackerFiles, coachMem, stateFile>>
       ELSE LET cs == cSession[1]
                summary == [session_id |-> cs.session_id,
                            duration |-> now - cs.started_at,
                            suggestions_offered |-> cs.suggestions_offered,
                            suggestions_accepted |-> cs.suggestions_accepted,
                            skill_snapshot |-> cs.skill_snapshot]
            IN IF tSession = <<>>
               THEN /\ cSession' = <<>>
                    /\ ret' = Ret("end_session", "returned", summary)
                    /\ UNCHANGED <<now, alive, trackerMem, trackerFiles, state, cachedReport,
                                   cacheTime, trendHist, stateFile>>
               ELSE LET ended == [tSession[1] EXCEPT !.end_time = <<now>>]
                    IN IF ~IsJson(sessions)
                       THEN \* sessions.append raises on a value that is no list
                            /\ tSession' = <<ended>>
                            /\ ret' = Ret("end_session", "raised", NoValue)
                            /\ UNCHANGED <<now, alive, events, sessions, stats, trackerFiles,
                                           coachMem, stateFile>>
                       ELSE LET se == Json(Append(sessions.data, ended))
                                f == SaveData(events, se, stats)
                            IN /\ sessions' = se
                               /\ tSession' = <<>>
                               /\ eventsFile' = f.eventsFile
                               /\ sessionsFile' = f.sessionsFile
                               /\ statsFile' = f.statsFile
                               /\ cSession' = <<>>
                               /\ ret' = Ret("end_session", "returned", summary)
                               /\ UNCHANGED <<now, alive, events, stats, state, cachedReport,
                                              cacheTime, trendHist, stateFile>>

\* ---------------------------------------------------- the suggestion API
\* The decision with the random draw taken before the override is looked at.
DisplayDecisionDrawFirst(skill, report, overrides, r) ==
    IF skill \notin DOMAIN report.skills
    THEN [kind |-> "show", intensity |-> INTENSITY_FULL, level |-> "new"]
    ELSE LET c == CalculateIntensity(report.skills[skill])
         IN IF ~ShouldShowAtIntensity(c.intensity, r)
            THEN [kind |-> "faded", intensity |-> c.intensity, level |-> c.level]
            ELSE IF Get(overrides, skill, FALSE)
            THEN [kind |-> "disabled", intensity |-> INTENSITY_NONE, level |-> c.level]
            ELSE [kind |-> "show", intensity |-> c.intensity, level |-> c.level]

\* The decision get_naming_suggestion and get_folder_suggestion take for their
\* skill from the report, the override map and the random draw r.
DisplayDecision(skill, report, overrides, r) ==
    IF skill \notin DOMAIN report.skills
    THEN [kind |-> "show", intensity |-> INTENSITY_FULL, level |-> "new"]
    ELSE LET c == CalculateIntensity(report.skills[skill])
         IN IF Get(overrides, skill, FALSE)
            THEN [kind |-> "disabled", intensity |-> INTENSITY_NONE, level |-> c.level]
            ELSE IF ~ShouldShowAtIntensity(c.intensity, r)
            THEN [kind |-> "faded", intensity |-> c.intensity, level |-> c.level]
            ELSE [kind |-> "show", intensity |-> c.intensity, level |-> c.level]

\* The content argument of get_naming_suggestion: None or a string.
ContentArgs == {"none", "text"}
\* suggest_filename calls content_analysis.get, which a non-empty str lacks.
SuggestFilenameRaises(content) == content = "text"

\* The available_folders argument of get_folder_suggestion: None or a list.
FolderArgs == {"none", "list"}
\* suggest_folder hands its second argument to Path(), which takes neither.
SuggestFolderRaises(folders) == folders \in {"none", "list"}

\* A suggestion request that counts the offer before it decides to display.
SuggestCountingAll(op, type, g, d, engineRaises) ==
    /\ cachedReport' = g.cachedReport
    /\ cacheTime' = g.cacheTime
    /\ trendHist' = g.trendHist
    /\ stateFile' = g.stateFile
    /\ UNCHANGED <<now, alive, trackerMem, trackerFiles>>
    /\ g.state.total_suggestions_offered < MaxCount
    /\ cSession' = IF cSession = <<>> THEN <<>>
                   ELSE <<[cSession[1] EXCEPT !.suggestions_offered = @ + 1]>>
    /\ state' = [g.state EXCEPT !.total_suggestions_offered = @ + 1]
    /\ ret' = IF d.kind # "show"
              THEN Ret(op, "returned",
                       SuggestionResult(IF d.kind = "disabled" THEN "none" ELSE type,
                                        FALSE, d.intensity, d.level, FALSE))
              ELSE IF engineRaises THEN Ret(op, "raised", NoValue)
              ELSE Ret(op, "returned", SuggestionResult(type, TRUE, d.intensity, d.level, TRUE))

\* What a suggestion request does once the report step g and the decision d are
\* known: _create_*_result asks the engine first and counts the offer after.
Suggest(op, type, g, d, engineRaises) ==
    /\ cachedReport' = g.cachedReport
    /\ cacheTime' = g.cacheTime
    /\ trendHist' = g.trendHist
    /\ stateFile' = g.stateFile
    /\ UNCHANGED <<now, alive, trackerMem, trackerFiles>>
    /\ IF d.kind # "show"
       THEN /\ state' = g.state
            /\ UNCHANGED cSession
            /\ ret' = Ret(op, "returned",
                          SuggestionResult(IF d.kind = "disabled" THEN "none" ELSE type,
                                           FALSE, d.intensity, d.level, FALSE))
       ELSE IF engineRaises
       THEN /\ state' = g.state
            /\ UNCHANGED cSession
            /\ ret' = Ret(op, "raised", NoValue)
       ELSE /\ g.state.total_suggestions_offered < MaxCount
            /\ cSession' = IF cSession = <<>> THEN <<>>
                           ELSE <<[cSession[1] EXCEPT !.suggestions_offered = @ + 1]>>
            /\ state' = [g.state EXCEPT !.total_suggestions_offered = @ + 1]
            /\ ret' = Ret(op, "returned",
                          SuggestionResult(type, TRUE, d.intensity, d.level, TRUE))

\* A call whose report step raised: only the trend history has moved.
ReportRaised(op, g) ==
    /\ trendHist' = g.trendHist
    /\ ret' = Ret(op, "raised", NoValue)
    /\ UNCHANGED <<now, alive, trackerMem, trackerFiles, state, stateFile, cSession,
                   cachedReport, cacheTime>>

\* get_naming_suggestion once the report step g is done.
NamingSuggestionOn(g) ==
    IF g.raised THEN ReportRaised("get_naming_suggestion", g)
    ELSE \E content \in ContentArgs, r \in RandomDraws :
            Suggest("get_naming_suggestion", "naming", g,
                    DisplayDecision("naming_consistency", g.report,
                                    g.state.fade_out_overrides, r),
                    SuggestFilenameRaises(content))

GetNamingSuggestion ==
    /\ alive
    /\ MayAssess(now)
    /\ NamingSuggestionOn(GetDifficultyReport(now))

\* get_folder_suggestion once the report step g is done.
FolderSuggestionOn(g) ==
    IF g.raised THEN ReportRaised("get_folder_suggestion", g)
    ELSE \E folders \in FolderArgs, r \in RandomDraws :
            Suggest("get_folder_suggestion", "folder", g,
                    DisplayDecision("folder_organization", g.report,
                                    g.state.fade_out_overrides, r),
                    SuggestFolderRaises(folders))

GetFolderSuggestion ==
    /\ alive
    /\ MayAssess(now)
    /\ FolderSuggestionOn(GetDifficultyReport(now))

\* The tip get_search_tip returns for a report: None, or the tip's type and
\* intensity.
SearchTip(report, results_count) ==
    IF "search_ability" \notin DOMAIN report.skills THEN <<>>
    ELSE LET a == report.skills["search_ability"]
             c == CalculateIntensity(a)
         IN IF c.intensity < INTENSITY_OCCASIONAL THEN <<>>
            ELSE IF results_count = 0
            THEN <<[type |-> "no_results", intensity |-> c.intensity]>>
            ELSE IF a.score < SKILL_LEARNING
            THEN <<[type |-> "general", intensity |-> c.intensity]>>
            ELSE <<>>

\* What a call does that only reads the report the step g produced.
ReadOnly(op, g, outcome, value) ==
    /\ cachedReport' = g.cachedReport
    /\ cacheTime' = g.cacheTime
    /\ trendHist' = g.trendHist
    /\ state' = g.state
    /\ stateFile' = g.stateFile
    /\ ret' = Ret(op, outcome, value)
    /\ UNCHANGED <<now, alive, trackerMem, trackerFiles, cSession>>

\* The result counts a caller passes: none, or some.
ResultCounts == {0, 1}

\* get_search_tip once the report step g is done.
SearchTipOn(g) ==
    IF g.raised THEN ReportRaised("get_search_tip", g)
    ELSE \E results_count \in ResultCounts :
            ReadOnly("get_search_tip", g, "returned", SearchTip(g.report, results_count))

GetSearchTip ==
    /\ alive
    /\ MayAssess(now)
    /\ SearchTipOn(GetDifficultyReport(now))

\* ------------------------------------------------------ response recording
\* record_suggestion_response counts the response, saves the state and then calls
\* tracker.record_organization_decision, a method BehaviorTracker does not have:
\* the AttributeError ends the call before the cache is invalidated.
RecordSuggestionResponse(accepted) ==
    /\ alive
    /\ IF accepted THEN state.total_suggestions_accepted < MaxCount
                   ELSE state.total_suggestions_dismissed < MaxCount
    /\ LET st == IF accepted
                 THEN [state EXCEPT !.total_suggestions_accepted = @ + 1]
                 ELSE [state EXCEPT !.total_suggestions_dismissed = @ + 1]
       IN /\ cSession' = IF cSession = <<>> THEN <<>>
                         ELSE IF accepted
                         THEN <<[cSession[1] EXCEPT !.suggestions_accepted = @ + 1]>>
                         ELSE <<[cSession[1] EXCEPT !.suggestions_dismissed = @ + 1]>>
          /\ state' = st
          /\ stateFile' = SaveState(st)
          /\ ret' = Ret("record_suggestion_response", "raised", NoValue)
          /\ UNCHANGED <<now, alive, trackerMem, trackerFiles, cachedReport, cacheTime,
                         trendHist>>

\* ---------------------------------------------------- status and reporting
SafeDivide(a, b) == IF b > 0 THEN Ratio(a, b) ELSE 0

\* get_status reads s['area'] of each entry of the report's three lists; the
\* entries have the keys skill, score, ... and no key area.
StatusRaises(report) ==
    report.struggles # <<>> \/ report.improvements # <<>> \/ report.regressions # <<>>

StatusOf(report, st, session) ==
    [overall_skill |-> report.overall_skill,
     skills |-> [k \in DOMAIN report.skills |->
                    LET a == report.skills[k]
                        c == CalculateIntensity(a)
                    IN [score |-> a.score, level |-> c.level, trend |-> a.trend,
                        intensity |-> c.intensity,
                        guidance_active |-> c.intensity > INTENSITY_MINIMAL,
                        samples |-> a.samples_count, confidence |-> a.confidence]],
     suggestions |-> [offered |-> st.total_suggestions_offered,
                      accepted |-> st.total_suggestions_accepted,
                      dismissed |-> st.total_suggestions_dismissed,
                      acceptance_rate |-> SafeDivide(st.total_suggestions_accepted,
                                                     st.total_suggestions_offered)],
     recommendations |-> report.recommendations,
     \* each list is empty when the call gets this far
     struggles |-> <<>>,
     improvements |-> <<>>,
     regressions |-> <<>>,
     session_active |-> session # <<>>]

\* get_status once the report step g is done.
StatusOn(g) ==
    IF g.raised THEN ReportRaised("get_status", g)
    ELSE IF StatusRaises(g.report)
    THEN ReadOnly("get_status", g, "raised", NoValue)
    ELSE ReadOnly("get_status", g, "returned", StatusOf(g.report, g.state, cSession))

GetStatus ==
    /\ alive
    /\ MayAssess(now)
    /\ StatusOn(GetDifficultyReport(now))

\* get_fade_status: per skill the level and intensity, whether guidance has faded
\* out, whether the user disabled it, and whether a regression will bring it back.
FadeStatusOf(report, overrides) ==
    [k \in DOMAIN report.skills |->
        [level |-> CalculateIntensity(report.skills[k]).level,
         intensity |-> CalculateIntensity(report.skills[k]).intensity,
         faded_out |-> CalculateIntensity(report.skills[k]).intensity <= INTENSITY_MINIMAL,
         override_disabled |-> Get(overrides, k, FALSE),
         will_re_engage |-> report.skills[k].trend = "regressing"]]

\* get_fade_status once the report step g is done.
FadeStatusOn(g) ==
    IF g.raised THEN ReportRaised("get_fade_status", g)
    ELSE ReadOnly("get_fade_status", g, "returned",
                  FadeStatusOf(g.report, g.state.fade_out_overrides))

GetFadeStatus ==
    /\ alive
    /\ MayAssess(now)
    /\ FadeStatusOn(GetDifficultyReport(now))

\* get_skill_history(skill_name) with the default of 30 days: the entries of the
\* coach's history of the skill that are younger than the cutoff.
GetSkillHistory(skill) ==
    /\ alive
    /\ ret' = Ret("get_skill_history", "returned",
                  SelectSeq(Get(state.skill_history, skill, <<>>),
                            LAMBDA e : e.date > now - HISTORY_DAYS * 24 * 60))
    /\ UNCHANGED <<now, alive, trackerMem, trackerFiles, coachMem, stateFile>>

\* ----------------------------------------------------------- user controls
SetFadeOutOverride(skill, disabled) ==
    /\ alive
    /\ skill \in DOMAIN state.fade_out_overrides
          \/ Cardinality(DOMAIN state.fade_out_overrides) < MaxOverrides
    /\ LET st == [state EXCEPT !.fade_out_overrides = Put(@, skill, disabled)]
       IN /\ state' = st
          /\ stateFile' = SaveState(st)
          /\ ret' = Ret("set_fade_out_override", "returned", NoValue)
          /\ UNCHANGED <<now, alive, trackerMem, trackerFiles, cSession, cachedReport,
                         cacheTime, trendHist>>

\* reset_skill_tracking(skill_name), skill a one-element sequence, or <<>> for
\* None.
ResetSkillTracking(skill) ==
    /\ alive
    /\ LET st == IF skill # <<>>
                 THEN [state EXCEPT !.skill_history = Put(@, skill[1], <<>>)]
                 ELSE [state EXCEPT !.skill_history = EmptyDict]
       IN /\ state' = st
          /\ stateFile' = SaveState(st)
          /\ cachedReport' = <<>>
          /\ ret' = Ret("reset_skill_tracking", "returned", NoValue)
          /\ UNCHANGED <<now, alive, trackerMem, trackerFiles, cSession, cacheTime, trendHist>>

\* force_re_engagement clears the override and the coach's own history of the
\* skill; the detector's trend history is not touched.
ForceReEngagement(skill) ==
    /\ alive
    /\ LET st == [state EXCEPT !.fade_out_overrides = Del(@, skill),
                               !.skill_history = Put(@, skill, <<>>)]
       IN /\ state' = st
          /\ stateFile' = SaveState(st)
          /\ cachedReport' = <<>>
          /\ ret' = Ret("force_re_engagement", "returned", NoValue)
          /\ UNCHANGED <<now, alive, trackerMem, trackerFiles, cSession, cacheTime, trendHist>>

\* ------------------------------------------------------ the behaviour store
\* The events of the logs that were recorded since the first clock reading.
Recorded ==
    LET since(log) == Len(SelectSeq(log, LAMBDA e : e.timestamp >= T0))
    IN since(events.searches) + since(events.file_accesses) + since(events.navigation)
       + since(events.decisions)

\* What the stats count.
StatsCount(st) ==
    st.total_searches + st.total_files_accessed + st.suggestions_accepted
    + st.suggestions_rejected + st.suggestions_customized

\* What the logs hold of the events the stats count.
LogCount == Len(events.searches) + Len(events.file_accesses) + Len(events.decisions)

\* A record_* call is made only while few events were recorded, in the log and
\* in the open session, and the stats
\* are less than MaxRecorded ahead of the logs (they are level with the logs
\* unless a file was lost), and opens a session only while the session list is
\* short.
MayRecord ==
    /\ Recorded < MaxRecorded
    /\ tSession # <<>> =>
          Len(tSession[1].searches) + Len(tSession[1].file_accesses)
             + Len(tSession[1].navigation) + Len(tSession[1].decisions) < MaxRecorded
    /\ IsJson(stats) => StatsCount(stats.data) < LogCount + MaxRecorded
    /\ (tSession = <<>> /\ IsJson(sessions)) => Len(sessions.data) < MaxSessions

\* The session a record_* call records into: the open one, or the one it opens.
RecordingSession ==
    IF tSession = <<>> THEN UserSession(GenerateSessionId(now), now) ELSE tSession[1]

\* The stats a record_* call finds once its session is open.
SessionStats == IF tSession = <<>> THEN StartStats(stats.data, now) ELSE stats.data

\* The body the four record_* methods share: open a session if none is open,
\* append the event e to the session's list `field` and to the log, write the
\* stats `bumped` (touches: the method writes stats) and save.
Record(op, field, e, touches, bumped) ==
    /\ alive
    /\ MayRecord
    /\ IF tSession = <<>> /\ ~IsJson(stats)
       THEN \* start_session raises on stats['first_seen']
            /\ tSession' = <<UserSession(GenerateSessionId(now), now)>>
            /\ ret' = Ret(op, "raised", NoValue)
            /\ UNCHANGED <<now, alive, events, sessions, stats, trackerFiles, coachMem, stateFile>>
       ELSE LET ev == [events EXCEPT ![field] = Append(@, e)]
            IN /\ tSession' = <<[RecordingSession EXCEPT ![field] = Append(@, e)]>>
               /\ events' = ev
               /\ IF touches /\ ~IsJson(stats)
                  THEN \* stats[...] += 1 raises before the save
                       /\ ret' = Ret(op, "raised", NoValue)
                       /\ UNCHANGED <<stats, trackerFiles>>
                  ELSE LET st == IF touches THEN Json(bumped)
                                 ELSE IF tSession = <<>> THEN Json(SessionStats)
                                 ELSE stats
                           f == SaveData(ev, sessions, st)
                       IN /\ stats' = st
                          /\ eventsFile' = f.eventsFile
                          /\ sessionsFile' = f.sessionsFile
                          /\ statsFile' = f.statsFile
                          /\ ret' = Ret(op, "returned", NoValue)
               /\ UNCHANGED <<now, alive, sessions, coachMem, stateFile>>

RecordSearch(clicked, refined) ==
    Record("record_search", "searches",
           SearchEvent(now, clicked, refined, RecordingSession.session_id), TRUE,
           [SessionStats EXCEPT !.total_searches = @ + 1,
                                !.successful_searches = IF clicked THEN @ + 1 ELSE @])

RecordFileAccess(atype, depth, folder, ftype, name) ==
    Record("record_file_access", "file_accesses",
           FileAccessEvent(now, atype, depth, folder, ftype, name,
                           RecordingSession.session_id), TRUE,
           [SessionStats EXCEPT !.total_files_accessed = @ + 1,
                                !.renames_performed = IF atype = "rename" THEN @ + 1 ELSE @])

RecordNavigation(secs) ==
    Record("record_navigation", "navigation",
           NavigationEvent(now, secs, RecordingSession.session_id), FALSE,
           SessionStats)

DecisionTypes == {"approve_suggestion", "reject_suggestion", "custom_name", "folder_choice"}

RecordDecision(dtype) ==
    Record("record_decision", "decisions",
           OrganizationDecision(now, dtype), dtype # "folder_choice",
           [SessionStats EXCEPT
               !.suggestions_accepted = IF dtype = "approve_suggestion" THEN @ + 1 ELSE @,
               !.suggestions_rejected = IF dtype = "reject_suggestion" THEN @ + 1 ELSE @,
               !.suggestions_customized = IF dtype = "custom_name" THEN @ + 1 ELSE @])

\* BehaviorTracker.clear_all_data: the logs, the session list and the stats are
\* replaced by empty ones and saved; current_session is not touched.
ClearAllData ==
    /\ alive
    /\ events' = EmptyEvents
    /\ sessions' = Json(<<>>)
    /\ stats' = Json(EmptyStats)
    /\ eventsFile' = SaveData(EmptyEvents, Json(<<>>), Json(EmptyStats)).eventsFile
    /\ sessionsFile' = SaveData(EmptyEvents, Json(<<>>), Json(EmptyStats)).sessionsFile
    /\ statsFile' = SaveData(EmptyEvents, Json(<<>>), Json(EmptyStats)).statsFile
    /\ ret' = Ret("clear_all_data", "returned", NoValue)
    /\ UNCHANGED <<now, alive, tSession, coachMem, stateFile>>

\* ------------------------------------------------- the clock, the process
TickSteps == {CACHE_MINUTES}

Tick(d) ==
    /\ now + d <= T0 + MaxTime
    /\ now' = now + d
    /\ UNCHANGED <<alive, trackerMem, trackerFiles, coachMem, stateFile, ret>>

\* The process ends between two calls; what it held in memory is gone.
Exit ==
    /\ alive
    /\ alive' = FALSE
    /\ events' = EmptyEvents
    /\ sessions' = Json(<<>>)
    /\ stats' = Json(EmptyStats)
    /\ tSession' = <<>>
    /\ state' = DefaultState
    /\ cSession' = <<>>
    /\ cachedReport' = <<>>
    /\ cacheTime' = <<>>
    /\ trendHist' = EmptyTrend
    /\ ret' = Ret("exit", "returned", NoValue)
    /\ UNCHANGED <<now, trackerFiles, stateFile>>

\* AdaptiveCoach(): the tracker loads its three files, the SuggestionEngine reads
\* events['file_accesses'] (get_naming_preferences), then _load_state runs.
Construct ==
    /\ ~alive
    /\ LET ev == LoadJson(eventsFile, EmptyEvents)
           se == LoadJson(sessionsFile, <<>>)
           st == LoadJson(statsFile, EmptyStats)
           ls == LoadState(stateFile)
       IN IF ~IsJson(ev) \/ ls.raised
          THEN /\ ret' = Ret("construct", "raised", NoValue)
               /\ UNCHANGED <<now, alive, trackerMem, trackerFiles, coachMem, stateFile>>
          ELSE /\ alive' = TRUE
               /\ events' = ev.data
               /\ sessions' = se
               /\ stats' = st
               /\ tSession' = <<>>
               /\ state' = ls.state
               /\ cSession' = <<>>
               /\ cachedReport' = <<>>
               /\ cacheTime' = <<>>
               /\ trendHist' = EmptyTrend
               /\ ret' = Ret("construct", "returned", NoValue)
               /\ UNCHANGED <<now, trackerFiles, stateFile>>

\* ------------------------------------------------------------ first states
\* A store an earlier process left behind: it recorded the events a minute
\* before the first clock reading in one session (opened by the first record_*
\* call) and ended without end_session, so the session list is empty.
StoreOf(searches, accesses, navigation) ==
    [events |-> [searches |-> searches, file_accesses |-> accesses,
                 navigation |-> navigation, decisions |-> <<>>],
     stats |-> [EmptyStats EXCEPT
                  !.total_searches = Len(searches),
                  !.successful_searches = Len(SelectSeq(searches, LAMBDA s : s.clicked_result)),
                  !.total_files_accessed = Len(accesses),
                  !.renames_performed =
                      Len(SelectSeq(accesses, LAMBDA a : a.access_type = "rename")),
                  !.first_seen = IF Len(searches) + Len(accesses) + Len(navigation) > 0
                                 THEN <<T0 - 1>> ELSE <<>>,
                  !.last_seen = IF Len(searches) + Len(accesses) + Len(navigation) > 0
                                THEN <<T0 - 1>> ELSE <<>>]]

Repeat(e, n) == [i \in 1..n |-> e]

FailedSearch == SearchEvent(T0 - 1, FALSE, FALSE, T0 - 1)
GoodSearch == SearchEvent(T0 - 1, TRUE, FALSE, T0 - 1)
TidyRename == FileAccessEvent(T0 - 1, "rename", 3, "docs", ".md",
                              FileName(TRUE, FALSE, TRUE, "notes"), T0 - 1)
MessyRename == FileAccessEvent(T0 - 1, "rename", 3, "misc", ".md",
                               FileName(FALSE, TRUE, FALSE, ""), T0 - 1)
OpenFile == FileAccessEvent(T0 - 1, "open", 3, "docs", ".md", NoName, T0 - 1)

InitStores ==
    { StoreOf(<<>>, <<>>, <<>>),
      StoreOf(Repeat(FailedSearch, 10), <<>>, <<>>),
      StoreOf(Repeat(GoodSearch, 3), Repeat(TidyRename, 8), <<>>) }

\* The state after AdaptiveCoach() on the files of the store s, with no
\* coaching_state.json yet.
InitOn(s) ==
    /\ now = T0
    /\ alive = TRUE
    /\ events = s.events
    /\ sessions = Json(<<>>)
    /\ stats = Json(s.stats)
    /\ tSession = <<>>
    /\ eventsFile = Json(s.events)
    /\ sessionsFile = Json(<<>>)
    /\ statsFile = Json(s.stats)
    /\ state = DefaultState
    /\ stateFile = Absent
    /\ cSession = <<>>
    /\ cachedReport = <<>>
    /\ cacheTime = <<>>
    /\ trendHist = EmptyTrend
    /\ ret = Ret("construct", "returned", NoValue)

Init == \E s \in InitStores : InitOn(s)

SearchInputs == {<<TRUE, FALSE>>, <<FALSE, FALSE>>, <<FALSE, TRUE>>}
AccessInputs == {TidyRename, MessyRename, OpenFile}
NavigationInputs == {10, 120}

\* The skills the user overrides, and the skill the user re-engages with.
OverrideSkills == {"naming_consistency", "folder_organization", "search_ability"}
ReEngageSkills == {"naming_consistency"}

\* ------------------------------------------------- the display decision
\* Suggestion requests, the user's overrides and re-engagement, and the clock,
\* in one process.
Next ==
    \/ GetNamingSuggestion
    \/ GetFolderSuggestion
    \/ GetSearchTip
    \/ \E k \in OverrideSkills, d \in BOOLEAN : SetFadeOutOverride(k, d)
    \/ \E k \in ReEngageSkills : ForceReEngagement(k)
    \/ \E d \in TickSteps : Tick(d)

Spec == Init /\ [][Next]_vars

\* The override map holds skill |-> TRUE: set_fade_out_override(skill, true) was
\* called and neither set_fade_out_override(skill, false) nor
\* force_re_engagement(skill) since.
Overridden(skill) == Get(state.fade_out_overrides, skill, FALSE)

\* The skill a suggestion operation decides on.
SkillOfOp(op) ==
    IF op = "get_naming_suggestion" THEN "naming_consistency" ELSE "folder_organization"

SuggestionOps == {"get_naming_suggestion", "get_folder_suggestion"}

\* C1: whenever the last call was get_naming_suggestion or get_folder_suggestion
\* and the user's override of that operation's skill was in force, the call
\* returned should_show = false, suggestion_type = "none", intensity 0 and no
\* content, whatever the skill's score, confidence and trend.
C1_OverrideSuppresses ==
    (ret.op \in SuggestionOps /\ Overridden(SkillOfOp(ret.op)))
    => /\ ret.outcome = "returned"
       /\ ret.value.should_show = FALSE
       /\ ret.value.suggestion_type = "none"
       /\ ret.value.intensity = INTENSITY_NONE
       /\ ret.value.has_content = FALSE

\* C1 (witness): a naming suggestion was requested under the override while the
\* cached report gives naming_consistency an intensity above 0.
C1_Witness ==
    /\ ret.op = "get_naming_suggestion"
    /\ Overridden("naming_consistency")
    /\ cachedReport # <<>>
    /\ CalculateIntensity(cachedReport[1].skills["naming_consistency"]).intensity > INTENSITY_NONE
    /\ ret.value.suggestion_type = "none"

\* C2: whenever the last call was get_search_tip and the user's override of
\* search_ability was in force, the call returned no tip.
C2_OverrideSuppressesTip ==
    (ret.op = "get_search_tip" /\ Overridden("search_ability"))
    => (ret.outcome = "returned" /\ ret.value = <<>>)

\* C2 (witness): a tip came back although search_ability is overridden.
C2_Witness ==
    /\ ret.op = "get_search_tip"
    /\ Overridden("search_ability")
    /\ ret.outcome = "returned"
    /\ ret.value # <<>>

\* C4: with an empty behaviour store and no override, every get_naming_suggestion
\* returns should_show = true, skill_level "new", intensity 1.0 and
\* suggestion_type "naming", whatever the random draw.
C4_NewUserFullGuidance ==
    (/\ ret.op = "get_naming_suggestion"
     /\ events = EmptyEvents
     /\ state.fade_out_overrides = EmptyDict)
    => /\ ret.outcome = "returned"
       /\ ret.value.should_show = TRUE
       /\ ret.value.skill_level = "new"
       /\ ret.value.intensity = INTENSITY_FULL
       /\ ret.value.suggestion_type = "naming"

\* C4 (witness): on the empty store a naming suggestion came back at level
\* "learning" and intensity 0.7, and was not shown.
C4_Witness ==
    /\ ret.op = "get_naming_suggestion"
    /\ events = EmptyEvents
    /\ state.fade_out_overrides = EmptyDict
    /\ ret.outcome = "returned"
    /\ ret.value = SuggestionResult("naming", FALSE, INTENSITY_REGULAR, "learning", FALSE)

\* C10: when get_naming_suggestion is the first call after
\* force_re_engagement("naming_consistency"), the report it reads gives
\* naming_consistency the trend "new" and the suggestion is shown at intensity 1.0
\* with level "new".
C10_ReEngagementRestoresNew ==
    [][(ret.op = "force_re_engagement" /\ ret'.op = "get_naming_suggestion")
       => /\ cachedReport' # <<>>
          /\ cachedReport'[1].skills["naming_consistency"].trend = "new"
          /\ ret'.outcome = "returned"
          /\ ret'.value.should_show = TRUE
          /\ ret'.value.intensity = INTENSITY_FULL
          /\ ret'.value.skill_level = "new"]_vars

\* C10 (witness): after a re-engagement the recomputed report still rates
\* naming_consistency as mastered with a trend other than "new".
C10_Witness ==
    /\ ret.op = "get_naming_suggestion"
    /\ ret.outcome = "returned"
    /\ ret.value.skill_level = "mastered"
    /\ "naming_consistency" \in DOMAIN state.skill_history
    /\ Len(state.skill_history["naming_consistency"]) = 1
    /\ cachedReport # <<>>
    /\ cachedReport[1].skills["naming_consistency"].trend = "stable"

\* ------------------------------------------------- the behaviour store
\* The store's sessions and its four record_* operations.
NextStore ==
    \/ StartSession
    \/ EndSession
    \/ \E in \in SearchInputs : RecordSearch(in[1], in[2])
    \/ \E a \in AccessInputs :
          RecordFileAccess(a.access_type, a.depth, a.folder, a.file_type, a.new_name)
    \/ \E secs \in NavigationInputs : RecordNavigation(secs)
    \/ \E dtype \in DecisionTypes : RecordDecision(dtype)
    \/ \E d \in TickSteps : Tick(d)

SpecStore == Init /\ [][NextStore]_vars

\* ------------------------------------------------ responses and restarts
\* The arguments of reset_skill_tracking: None, or one skill.
ResetArgs == {<<>>, <<"naming_consistency">>}

\* Sessions, naming suggestions and the user's responses to them, and the
\* status view.
NextResponse ==
    \/ StartSession
    \/ EndSession
    \/ GetNamingSuggestion
    \/ \E accepted \in BOOLEAN : RecordSuggestionResponse(accepted)
    \/ GetStatus
    \/ \E d \in TickSteps : Tick(d)

SpecResponse == Init /\ [][NextResponse]_vars

\* The operations that change the coaching state, with the process ending and
\* starting again between them.
NextRestart ==
    \/ GetNamingSuggestion
    \/ \E accepted \in BOOLEAN : RecordSuggestionResponse(accepted)
    \/ \E d \in BOOLEAN : SetFadeOutOverride("naming_consistency", d)
    \/ \E k \in ResetArgs : ResetSkillTracking(k)
    \/ \E k \in ReEngageSkills : ForceReEngagement(k)
    \/ Exit
    \/ Construct

SpecRestart == Init /\ [][NextRestart]_vars

\* What a fresh instance would load from coaching_state.json.
Persisted == LoadState(stateFile)

\* C3: every call of record_suggestion_response returns, and when it has, the
\* counter of the response is one higher (cumulative, and in the session if one
\* is active), the store's decision log holds one more event, the coaching state
\* is on disk, and the report cache is stale.
C3_ResponseHasFourEffects ==
    [][\A accepted \in BOOLEAN :
          RecordSuggestionResponse(accepted)
          => /\ ret'.outcome = "returned"
             /\ IF accepted
                THEN state'.total_suggestions_accepted = state.total_suggestions_accepted + 1
                ELSE state'.total_suggestions_dismissed = state.total_suggestions_dismissed + 1
             /\ Len(events'.decisions) = Len(events.decisions) + 1
             /\ Persisted' = [raised |-> FALSE, state |-> state']
             /\ ~CacheFresh(now)']_vars

\* C3 (witness): a response was counted and saved, the call raised, the decision
\* log holds nothing and the report cached before the call is still fresh.
C3_Witness ==
    /\ ret.op = "record_suggestion_response"
    /\ ret.outcome = "raised"
    /\ state.total_suggestions_accepted = 1
    /\ Persisted.state.total_suggestions_accepted = 1
    /\ events.decisions = <<>>
    /\ CacheFresh(now)

\* The skills a list of the report names.
SkillsNamed(list) == [i \in DOMAIN list |-> list[i].skill]

\* C5: whenever the last call was get_status it returned a status, and the
\* status's struggles, improvements and regressions name the skills of the
\* report's lists.
C5_StatusNeverRaises ==
    ret.op = "get_status"
    => /\ ret.outcome = "returned"
       /\ cachedReport # <<>>
       /\ ret.value.struggles = SkillsNamed(cachedReport[1].struggles)
       /\ ret.value.improvements = SkillsNamed(cachedReport[1].improvements)
       /\ ret.value.regressions = SkillsNamed(cachedReport[1].regressions)

\* C5 (witness): get_status raised on a report whose struggles list is not empty.
C5_Witness ==
    /\ ret.op = "get_status"
    /\ ret.outcome = "raised"
    /\ cachedReport # <<>>
    /\ cachedReport[1].struggles # <<>>

\* The operations that change the coaching state.
StateChangingOps ==
    {"get_naming_suggestion", "get_folder_suggestion", "record_suggestion_response",
     "set_fade_out_override", "reset_skill_tracking", "force_re_engagement"}

\* C7: whenever the last call was a state-changing operation that completed (for
\* a suggestion request: one that displayed its suggestion), the coaching state
\* a fresh instance would load equals the state in memory.
C7_PersistedEqualsMemory ==
    (/\ ret.op \in StateChangingOps
     /\ ret.outcome = "returned"
     /\ ret.op \in SuggestionOps => ret.value.should_show)
    => Persisted = [raised |-> FALSE, state |-> state]

\* C7 (witness): a naming suggestion was displayed and counted in memory, and
\* the file still holds the count before it.
C7_Witness ==
    /\ ret.op = "get_naming_suggestion"
    /\ ret.outcome = "returned"
    /\ ret.value.should_show
    /\ state.total_suggestions_offered = 1
    /\ ~Persisted.raised
    /\ Persisted.state.total_suggestions_offered = 0

\* ------------------------------------------------------ the search window
\* A search before the 30-day window of the first clock reading.
OldSearch == SearchEvent(0, TRUE, FALSE, 0)
OldSearches == {0, 1}

\* A store of n failed searches inside the window and some outside it.
InitSearch ==
    \E n \in LAST_N..MaxSearches, old \in OldSearches :
        InitOn(StoreOf(Repeat(OldSearch, old) \o Repeat(FailedSearch, n), <<>>, <<>>))

NextSearch ==
    \/ \E in \in SearchInputs : RecordSearch(in[1], in[2])
    \/ GetSearchTip
    \/ GetStatus
    \/ \E d \in TickSteps : Tick(d)

SpecSearch == InitSearch /\ [][NextSearch]_vars

\* The searches of the window at the clock reading t.
RecentSearches(t) == SelectSeq(events.searches, LAMBDA s : InWindow(s, t))

\* Every search of the sequence has no clicked result and no refined query.
AllFailed(searches) ==
    \A i \in DOMAIN searches : ~searches[i].clicked_result /\ ~searches[i].refined_query

\* C6: whenever the window holds N >= 10 searches, all without a clicked result
\* and without a refined query, a report computed over these N searches gives
\* search_ability a score below 0.4 and lists it among the struggles.
C6_FailedSearchesStruggle ==
    (/\ cachedReport # <<>>
     /\ Len(RecentSearches(now)) >= 10
     /\ AllFailed(RecentSearches(now))
     /\ cachedReport[1].skills["search_ability"].samples_count = Len(RecentSearches(now)))
    => /\ cachedReport[1].skills["search_ability"].score < 400
       /\ \E i \in DOMAIN cachedReport[1].struggles :
             cachedReport[1].struggles[i].skill = "search_ability"

\* C6 (witness): the report over 26 failed searches gives search_ability a score
\* of 0.4 or more and no struggle.
C6_Witness ==
    /\ cachedReport # <<>>
    /\ Len(RecentSearches(now)) = 26
    /\ AllFailed(RecentSearches(now))
    /\ cachedReport[1].skills["search_ability"].samples_count = 26
    /\ cachedReport[1].skills["search_ability"].score >= 400
    /\ cachedReport[1].struggles = <<>>

\* ------------------------------------------------- a crash during a save
\* What open(path, 'w') and json.dump leave of a file when the process dies
\* inside them: an empty or partly written file, which is no JSON, or the
\* complete file.
WriteOutcomes(new) == {Malformed, new}

\* What a fresh instance loads from the four files.
Loaded(ef, sf, tf, cf) ==
    [events |-> LoadJson(ef, EmptyEvents), sessions |-> LoadJson(sf, <<>>),
     stats |-> LoadJson(tf, EmptyStats), state |-> LoadState(cf)]

\* The process dies inside the call op; `value` keeps what a fresh instance would
\* have loaded before the call's save and after the completed save.
Die(op, value) ==
    /\ alive' = FALSE
    /\ events' = EmptyEvents
    /\ sessions' = Json(<<>>)
    /\ stats' = Json(EmptyStats)
    /\ tSession' = <<>>
    /\ state' = DefaultState
    /\ cSession' = <<>>
    /\ cachedReport' = <<>>
    /\ cacheTime' = <<>>
    /\ trendHist' = EmptyTrend
    /\ ret' = Ret(op, "crashed", value)
    /\ UNCHANGED now

\* set_fade_out_override, with the process dying inside _save_state.
CrashInSaveState(skill, disabled) ==
    /\ alive
    /\ skill \in DOMAIN state.fade_out_overrides
          \/ Cardinality(DOMAIN state.fade_out_overrides) < MaxOverrides
    /\ LET st == [state EXCEPT !.fade_out_overrides = Put(@, skill, disabled)]
       IN /\ stateFile' \in WriteOutcomes(SaveState(st))
          /\ UNCHANGED trackerFiles
          /\ Die("set_fade_out_override",
                 [before |-> Loaded(eventsFile, sessionsFile, statsFile, stateFile),
                  after |-> Loaded(eventsFile, sessionsFile, statsFile, SaveState(st))])

\* record_search, with the process dying inside _save_data while it writes the
\* p-th of its three files: the files before it are written, the files after it
\* are not.
CrashInSaveData(clicked, refined, p) ==
    /\ alive
    /\ MayRecord
    /\ IsJson(stats)
    /\ LET ev == [events EXCEPT
                    !.searches = Append(@, SearchEvent(now, clicked, refined,
                                                       RecordingSession.session_id))]
           st == Json([SessionStats EXCEPT
                         !.total_searches = @ + 1,
                         !.successful_searches = IF clicked THEN @ + 1 ELSE @])
           f == SaveData(ev, sessions, st)
       IN /\ eventsFile' \in IF p = 1 THEN WriteOutcomes(f.eventsFile) ELSE {f.eventsFile}
          /\ sessionsFile' \in IF p < 2 THEN {sessionsFile}
                               ELSE IF p = 2 THEN WriteOutcomes(f.sessionsFile)
                               ELSE {f.sessionsFile}
          /\ statsFile' \in IF p < 3 THEN {statsFile} ELSE WriteOutcomes(f.statsFile)
          /\ UNCHANGED stateFile
          /\ Die("record_search",
                 [before |-> Loaded(eventsFile, sessionsFile, statsFile, stateFile),
                  after |-> Loaded(f.eventsFile, f.sessionsFile, f.statsFile, stateFile)])

SavedFiles == {1, 2, 3}

NextCrash ==
    \/ \E d \in BOOLEAN : SetFadeOutOverride("naming_consistency", d)
    \/ \E in \in SearchInputs : RecordSearch(in[1], in[2])
    \/ \E d \in BOOLEAN : CrashInSaveState("naming_consistency", d)
    \/ \E in \in SearchInputs, p \in SavedFiles : CrashInSaveData(in[1], in[2], p)
    \/ \E d \in TickSteps : Tick(d)
    \/ Exit
    \/ Construct

SpecCrash == Init /\ [][NextCrash]_vars

\* C8: whenever the process died inside a save, what a fresh instance loads from
\* the files is either all of what it would have loaded before the save or all
\* of what it would have loaded after the completed save.
C8_CrashLeavesBeforeOrAfter ==
    ret.outcome = "crashed"
    => Loaded(eventsFile, sessionsFile, statsFile, stateFile)
          \in {ret.value.before, ret.value.after}

\* C8 (witness): the process died while _save_data wrote its second file; the
\* event log on disk holds the new search and the stats on disk do not count it.
C8_Witness ==
    /\ ret.op = "record_search"
    /\ ret.outcome = "crashed"
    /\ IsJson(eventsFile) /\ IsJson(statsFile)
    /\ Len(eventsFile.data.searches) = statsFile.data.total_searches + 1

\* ------------------------------------------------- whatever the files hold
\* The contents of a file whose intact content would be the JSON of d.
FileContents(d) == {Absent, Malformed, WrongShape, Json(d)}

\* No process runs, and each of the four files holds any of its contents.
InitLoad ==
    /\ now = T0
    /\ alive = FALSE
    /\ events = EmptyEvents
    /\ sessions = Json(<<>>)
    /\ stats = Json(EmptyStats)
    /\ tSession = <<>>
    /\ eventsFile \in FileContents(EmptyEvents)
    /\ sessionsFile \in FileContents(<<>>)
    /\ statsFile \in FileContents(EmptyStats)
    /\ state = DefaultState
    /\ stateFile \in FileContents(StateJson(DefaultState))
    /\ cSession = <<>>
    /\ cachedReport = <<>>
    /\ cacheTime = <<>>
    /\ trendHist = EmptyTrend
    /\ ret = Ret("exit", "returned", NoValue)

NextLoad ==
    \/ Construct
    \/ StartSession
    \/ EndSession
    \/ GetStatus
    \/ RecordSearch(FALSE, FALSE)
    \/ Exit

SpecLoad == InitLoad /\ [][NextLoad]_vars

\* The operations of NextLoad, which all return on a first run.
FirstRunOps == {"start_session", "end_session", "get_status", "record_search"}

\* C9: whatever the four files hold, the constructor returns, each record whose
\* file is absent or no JSON object of its shape is the empty default, and the
\* operations that return on a first run return.
C9_CorruptFilesFallBack ==
    /\ ret.op = "construct"
       => /\ ret.outcome = "returned"
          /\ ~IsJson(eventsFile) => events = EmptyEvents
          /\ ~IsJson(sessionsFile) => sessions = Json(<<>>)
          /\ ~IsJson(statsFile) => stats = Json(EmptyStats)
          /\ ~IsJson(stateFile) => state = DefaultState
    /\ ret.op \in FirstRunOps => ret.outcome = "returned"

\* C9 (witness): the constructor raised on a coaching_state.json that holds JSON
\* of another shape.
C9_Witness ==
    /\ ret.op = "construct"
    /\ ret.outcome = "raised"
    /\ stateFile = WrongShape
    /\ IsJson(eventsFile)


\* --------------------------------------------- shallow paths, quick browsing
\* A file of the top folder, opened: Path('a.md') has one part and parent '.'.
ShallowOpen == FileAccessEvent(T0 - 1, "open", 1, ".", ".md", NoName, T0 - 1)
\* A folder the user left after secs seconds.
QuickLook(secs) == NavigationEvent(T0 - 1, secs, T0 - 1)

\* The stores of a user who browsed n folders and opened some files, shallow or
\* three folders deep.
BrowseCounts == {5, 7}
InitAssess ==
    \E n \in BrowseCounts, secs \in NavigationInputs, opened \in {<<>>, <<ShallowOpen>>, <<OpenFile>>} :
        InitOn(StoreOf(<<>>, opened, Repeat(QuickLook(secs), n)))

NextAssess ==
    \/ \E secs \in NavigationInputs : RecordNavigation(secs)
    \/ \E a \in {ShallowOpen, OpenFile} :
          RecordFileAccess(a.access_type, a.depth, a.folder, a.file_type, a.new_name)
    \/ GetSearchTip
    \/ GetFolderSuggestion
    \/ \E d \in TickSteps : Tick(d)

SpecAssess == InitAssess /\ [][NextAssess]_vars

\* C11: every assessment of a report has its score and its confidence in [0,1],
\* and the report's overall skill is in [0,1].
C11_ScoresInUnitInterval ==
    cachedReport # <<>> =>
        /\ \A k \in DOMAIN cachedReport[1].skills :
              /\ cachedReport[1].skills[k].score \in 0..SCALE
              /\ cachedReport[1].skills[k].confidence \in 0..SCALE
        /\ cachedReport[1].overall_skill \in 0..SCALE

\* C11 (witness): seven folders browsed and one top-folder file opened; the
\* report gives folder_organization a score above 1 with a confidence above 0.3,
\* and an overall skill above 1.
C11_Witness ==
    /\ cachedReport # <<>>
    /\ Len(events.navigation) = 7
    /\ events.file_accesses = <<ShallowOpen>>
    /\ cachedReport[1].skills["folder_organization"].score > SCALE
    /\ cachedReport[1].skills["folder_organization"].confidence > 300
    /\ cachedReport[1].overall_skill > SCALE

\* ------------------------------------------- suggestion requests that raise
\* C12: a call of get_naming_suggestion or get_folder_suggestion never raises,
\* and a result with should_show = true carries the generated suggestion.
C12_SuggestionsNeverRaise ==
    ret.op \in SuggestionOps
    => /\ ret.outcome = "returned"
       /\ ret.value.should_show => ret.value.has_content

\* C12 (witness): a folder suggestion was requested with no override in force
\* and the call raised out of the suggestion engine.
C12_Witness ==
    /\ ret.op = "get_folder_suggestion"
    /\ ret.outcome = "raised"
    /\ ~Overridden("folder_organization")
    /\ cachedReport # <<>>

\* ------------------------------------------------------- one session at a time
\* Sessions started and ended through the orchestrator while the store records
\* searches, which open a session of the store's own when none is open.
NextSession ==
    \/ StartSession
    \/ EndSession
    \/ \E in \in SearchInputs : RecordSearch(in[1], in[2])
    \/ \E d \in TickSteps : Tick(d)

SpecSession == Init /\ [][NextSession]_vars

\* C13: the orchestrator's session, when there is one, is the store's current
\* session; end_session with a session active returns that session's summary and
\* leaves no session in the orchestrator and none in the store; end_session with
\* none active returns the error marker and changes neither the coaching state
\* nor the store nor the files.
C13_OneSessionEndsOnce ==
    /\ [](cSession # <<>>
          => /\ tSession # <<>>
             /\ tSession[1].session_id = cSession[1].session_id)
    /\ [][EndSession
          => IF cSession # <<>>
             THEN /\ ret'.outcome = "returned"
                  /\ ret'.value.session_id = cSession[1].session_id
                  /\ ret'.value.skill_snapshot = cSession[1].skill_snapshot
                  /\ ret'.value.suggestions_offered = cSession[1].suggestions_offered
                  /\ cSession' = <<>>
                  /\ tSession' = <<>>
             ELSE /\ ret'.outcome = "returned"
                  /\ ret'.value = [error |-> "No active session"]
                  /\ UNCHANGED <<state, trackerMem, trackerFiles, stateFile>>]_vars

\* C13 (witness): a session that recorded a search was ended: the call returned
\* its summary, no session is left, and the session list holds the session.
C13_Witness ==
    /\ ret.op = "end_session"
    /\ ret.outcome = "returned"
    /\ "session_id" \in DOMAIN ret.value
    /\ cSession = <<>>
    /\ tSession = <<>>
    /\ Len(sessions.data) = 1
    /\ sessions.data[1].session_id = ret.value.session_id
    /\ sessions.data[1].searches # <<>>

\* ------------------------------------------------------- the offered counters
\* Suggestion requests inside and outside sessions, with the naming override.
NextOffer ==
    \/ StartSession
    \/ EndSession
    \/ GetNamingSuggestion
    \/ GetFolderSuggestion
    \/ \E d \in BOOLEAN : SetFadeOutOverride("naming_consistency", d)
    \/ \E d \in TickSteps : Tick(d)

SpecOffer == Init /\ [][NextOffer]_vars

\* C14: a naming or folder suggestion request that returns should_show = true
\* has raised the cumulative offered counter by exactly 1 and, in a session, the
\* session's offered counter by exactly 1; one that returns should_show = false
\* has left both counters as they were.
C14_OfferedCountsShown ==
    [][((GetNamingSuggestion \/ GetFolderSuggestion) /\ ret'.outcome = "returned")
       => IF ret'.value.should_show
          THEN /\ state'.total_suggestions_offered = state.total_suggestions_offered + 1
               /\ cSession # <<>>
                  => /\ cSession' # <<>>
                     /\ cSession'[1].suggestions_offered
                            = cSession[1].suggestions_offered + 1
          ELSE /\ state'.total_suggestions_offered = state.total_suggestions_offered
               /\ cSession' = cSession]_vars

\* C14 (witness): a naming suggestion was displayed inside a session, and the
\* session and the coaching state each count one offer.
C14_Witness ==
    /\ ret.op = "get_naming_suggestion"
    /\ ret.outcome = "returned"
    /\ ret.value.should_show
    /\ cSession # <<>>
    /\ cSession[1].suggestions_offered = 1
    /\ state.total_suggestions_offered = 1

\* ------------------------------------------------------------- the views
\* The status views, with the user's override as the operation that changes the
\* coaching state between them, and a clock that moves inside the cache window.
ViewTicks == {2, 3}

NextView ==
    \/ GetStatus
    \/ GetFadeStatus
    \/ \E k \in Skills : GetSkillHistory(k)
    \/ \E d \in BOOLEAN : SetFadeOutOverride("naming_consistency", d)
    \/ \E d \in ViewTicks : Tick(d)

SpecView == Init /\ [][NextView]_vars

\* C15: a call of get_status, get_fade_status or get_skill_history leaves the
\* coaching state, the assessor's trend history, the store and the files as they
\* were, also when the report cache is empty or expired.
C15_ViewsAreReadOnly ==
    [][(GetStatus \/ GetFadeStatus \/ \E k \in Skills : GetSkillHistory(k))
       => UNCHANGED <<state, trendHist, stateFile, trackerMem, trackerFiles>>]_vars

\* C15 (witness): get_fade_status found the cache expired: the coaching state
\* holds a second history entry per skill and the time of this assessment, the
\* trend history of search_ability has grown, and the state file was rewritten.
C15_Witness ==
    /\ ret.op = "get_fade_status"
    /\ ret.outcome = "returned"
    /\ state.last_assessment = <<now>>
    /\ cacheTime = <<now>>
    /\ now > T0
    /\ \A k \in Skills : Len(Get(state.skill_history, k, <<>>)) = 2
    /\ Len(trendHist["search_ability"]) = 2
    /\ stateFile = SaveState(state)

\* C16: when get_status returned, nothing but time has passed since, and the
\* cached report is still less than 5 minutes old, the next get_status returns
\* the same status.
C16_StatusRepeatsInWindow ==
    [][(/\ GetStatus
        /\ ret.op = "get_status"
        /\ ret.outcome = "returned"
        /\ cacheTime # <<>>
        /\ now - cacheTime[1] < CACHE_MINUTES)
       => /\ ret'.outcome = "returned"
          /\ ret'.value = ret.value]_vars

\* C16 (witness): get_status returned the status of a report that was cached
\* three minutes earlier.
C16_Witness ==
    /\ ret.op = "get_status"
    /\ ret.outcome = "returned"
    /\ cacheTime = <<T0>>
    /\ now = T0 + 3
    /\ ret.value.overall_skill = cachedReport[1].overall_skill
    /\ state.last_assessment = <<T0>>

Scores == {0, 200, 399, 400, 401, 550, 699, 700, 701, 849, 850, 851, SCALE}
Confidences == {0, 100, 499, 500, SCALE}
Trends == {"new", "improving", "stable", "regressing"}

\* A fresh coach that was handed two assessments of one skill with the same
\* confidence, the first with the lower or the same score.
InitIntensity ==
    /\ now = T0
    /\ alive = TRUE
    /\ events = EmptyEvents
    /\ sessions = Json(<<>>)
    /\ stats = Json(EmptyStats)
    /\ tSession = <<>>
    /\ eventsFile = Json(EmptyEvents)
    /\ sessionsFile = Json(<<>>)
    /\ statsFile = Json(EmptyStats)
    /\ state = DefaultState
    /\ stateFile = Absent
    /\ cSession = <<>>
    /\ cachedReport = <<>>
    /\ cacheTime = <<>>
    /\ trendHist = EmptyTrend
    /\ \E s1 \in Scores, s2 \in Scores, c \in Confidences, t1 \in Trends, t2 \in Trends :
          /\ s1 <= s2
          /\ ret = Ret("assessments", "returned",
                       [first |-> Assessment("search_ability", s1, c, t1, T0, 1),
                        second |-> Assessment("search_ability", s2, c, t2, T0, 1)])

\* _calculate_intensity applied to each of the two assessments.
CompareIntensity ==
    /\ alive
    /\ ret.op = "assessments"
    /\ ret' = Ret("_calculate_intensity", "returned",
                  [first |-> ret.value.first, second |-> ret.value.second,
                   of_first |-> CalculateIntensity(ret.value.first),
                   of_second |-> CalculateIntensity(ret.value.second)])
    /\ UNCHANGED <<now, alive, trackerMem, trackerFiles, coachMem, stateFile>>

NextIntensity == CompareIntensity

SpecIntensity == InitIntensity /\ [][NextIntensity]_vars

\* C18: the intensity computed for a score in [0,1], a confidence in [0,1] and
\* any of the four trends lies in [0,1].
C18_IntensityInUnitInterval ==
    ret.op = "_calculate_intensity"
    => /\ ret.value.of_first.intensity \in INTENSITY_NONE..INTENSITY_FULL
       /\ ret.value.of_second.intensity \in INTENSITY_NONE..INTENSITY_FULL

\* C18 (witness): a struggling and regressing skill, whose base intensity of 1.0
\* the regression would raise to 1.2, has intensity 1.0; an improving mastered
\* one with full confidence has intensity 0.
C18_Witness ==
    /\ ret.op = "_calculate_intensity"
    /\ ret.value.first.score < SKILL_STRUGGLING
    /\ ret.value.first.trend = "regressing"
    /\ ret.value.of_first.intensity = INTENSITY_FULL
    /\ ret.value.second.score >= SKILL_PROFICIENT
    /\ ret.value.second.trend = "improving"
    /\ ret.value.second.confidence = SCALE
    /\ ret.value.of_second.intensity = INTENSITY_NONE

\* C19: of two assessments with the same trend and the same confidence, the one
\* with the higher score has no higher intensity.
C19_IntensityNonIncreasing ==
    (/\ ret.op = "_calculate_intensity"
     /\ ret.value.first.trend = ret.value.second.trend
     /\ ret.value.first.confidence = ret.value.second.confidence
     /\ ret.value.first.score <= ret.value.second.score)
    => ret.value.of_first.intensity >= ret.value.of_second.intensity

\* C19 (witness): two improving skills of confidence 0.5 on the two sides of the
\* limit 0.85: intensity 0.2 below it and 0 at it.
C19_Witness ==
    /\ ret.op = "_calculate_intensity"
    /\ ret.value.first.trend = "improving"
    /\ ret.value.second.trend = "improving"
    /\ ret.value.first.confidence = 500
    /\ ret.value.first.score = 849
    /\ ret.value.second.score = 850
    /\ ret.value.of_first.intensity = 200
    /\ ret.value.of_second.intensity = INTENSITY_NONE

\* C20: of two assessments with the same score and the same confidence, the
\* regressing one has at least the intensity of the stable one; and the level of
\* a regressing skill is never "mastered".
C20_RegressionBoosts ==
    ret.op = "_calculate_intensity"
    => /\ (/\ ret.value.first.score = ret.value.second.score
           /\ ret.value.first.trend = "regressing"
           /\ ret.value.second.trend = "stable")
          => ret.value.of_first.intensity >= ret.value.of_second.intensity
       /\ ret.value.first.trend = "regressing" => ret.value.of_first.level # "mastered"
       /\ ret.value.second.trend = "regressing" => ret.value.of_second.level # "mastered"

\* C20 (witness): a score of 0.85 with full confidence: regressing it has
\* intensity 0.3 and level "proficient", stable it has 0.1 and "mastered".
C20_Witness ==
    /\ ret.op = "_calculate_intensity"
    /\ ret.value.first.score = 850
    /\ ret.value.second.score = 850
    /\ ret.value.first.confidence = SCALE
    /\ ret.value.first.trend = "regressing"
    /\ ret.value.second.trend = "stable"
    /\ ret.value.of_first = [intensity |-> INTENSITY_OCCASIONAL, level |-> "proficient"]
    /\ ret.value.of_second = [intensity |-> INTENSITY_MINIMAL, level |-> "mastered"]

\* ------------------------------------------------ a settled naming habit
\* The clock of a run that lasts several cache lifetimes.
TickWithin(d, limit) ==
    /\ now + d <= T0 + limit
    /\ now' = now + d
    /\ UNCHANGED <<alive, trackerMem, trackerFiles, coachMem, stateFile, ret>>

\* The numbers of renames the store of a settled user holds.
RenameCounts == {20, 21}

\* A store of n renames, each lowercase, with underscores and the prefix "notes".
InitNaming ==
    \E n \in RenameCounts : InitOn(StoreOf(<<>>, Repeat(TidyRename, n), <<>>))

\* Requests that read the report while nothing is recorded.
NextNaming ==
    \/ GetNamingSuggestion
    \/ GetFadeStatus
    \/ GetStatus
    \/ \E d \in TickSteps : TickWithin(d, MaxLater)

SpecNaming == InitNaming /\ [][NextNaming]_vars

\* C21: with 20 or more renames that are all lowercase, use underscores and
\* share one prefix, every report gives naming_consistency a score above 0.8,
\* level "mastered" and an intensity of at most 0.1; its trend is "new" at the
\* first two assessments of the process and "stable" from the third on.
C21_SettledNamingIsMastered ==
    cachedReport # <<>> =>
        /\ cachedReport[1].skills["naming_consistency"].score > 800
        /\ CalculateIntensity(cachedReport[1].skills["naming_consistency"]).level = "mastered"
        /\ CalculateIntensity(cachedReport[1].skills["naming_consistency"]).intensity
              <= INTENSITY_MINIMAL
        /\ cachedReport[1].skills["naming_consistency"].trend
              = IF Len(trendHist["naming_consistency"]) < 3 THEN "new" ELSE "stable"

\* C21 (witness): the fourth assessment of the process, a quarter of an hour
\* after the first: naming_consistency is stable with intensity 0.1.
C21_Witness ==
    /\ cachedReport # <<>>
    /\ cacheTime = <<T0 + 15>>
    /\ Len(trendHist["naming_consistency"]) = 4
    /\ cachedReport[1].skills["naming_consistency"].trend = "stable"
    /\ cachedReport[1].skills["naming_consistency"].samples_count >= 20
    /\ CalculateIntensity(cachedReport[1].skills["naming_consistency"]).intensity
          = INTENSITY_MINIMAL

\* ------------------------------------------------ skills without samples
\* The samples an assessment of the skill needs before it scores.
MinSamples(k) == IF k = "search_ability" THEN 3 ELSE 5

\* A store with enough samples for every skill, and one a sample short of each
\* minimum.
InitFloor ==
    \/ InitOn(StoreOf(Repeat(GoodSearch, 3), Repeat(TidyRename, 8), Repeat(QuickLook(10), 5)))
    \/ InitOn(StoreOf(Repeat(GoodSearch, 2), Repeat(TidyRename, 4), Repeat(QuickLook(10), 4)))

\* Reports read before and after the user cleared the store.
NextFloor ==
    \/ GetFadeStatus
    \/ GetSearchTip
    \/ GetStatus
    \/ ClearAllData
    \/ \E d \in TickSteps : TickWithin(d, MaxLater)

SpecFloor == InitFloor /\ [][NextFloor]_vars

\* C22: an assessment of a skill with fewer samples than the skill's minimum has
\* score 0.5, confidence at most 0.1 and trend "new"; and a step that changes
\* the trend history of a skill is an assessment that had at least the minimum.
C22_TooFewSamplesFloor ==
    /\ [](cachedReport # <<>>
          => \A k \in Skills :
                cachedReport[1].skills[k].samples_count < MinSamples(k)
                => /\ cachedReport[1].skills[k].score = SCALE \div 2
                   /\ cachedReport[1].skills[k].confidence <= SCALE \div 10
                   /\ cachedReport[1].skills[k].trend = "new")
    /\ [][\A k \in Skills :
             trendHist'[k] # trendHist[k]
             => /\ cachedReport' # <<>>
                /\ cachedReport'[1].skills[k].samples_count >= MinSamples(k)]_vars

\* C22 (witness): search_ability was scored once, the store was cleared, and the
\* next assessment found no search: score 0.5, confidence 0.1, trend "new", and
\* the trend history still holds the one score.
C22_Witness ==
    /\ cachedReport # <<>>
    /\ cacheTime # <<T0>>
    /\ events.searches = <<>>
    /\ cachedReport[1].skills["search_ability"].samples_count = 0
    /\ cachedReport[1].skills["search_ability"].score = SCALE \div 2
    /\ cachedReport[1].skills["search_ability"].confidence = SCALE \div 10
    /\ Len(trendHist["search_ability"]) = 1

\* ------------------------------------------------- the capped score history
\* The history n earlier assessments left for every skill, one a minute.
OldHistory(n) ==
    [k \in Skills |-> [i \in 1..n |-> [date |-> i, score |-> SCALE \div 2, trend |-> "new"]]]

\* The lengths of the histories a long-running installation has on disk.
LongHistories == {HISTORY_CAP - 1, HISTORY_CAP}

\* A coach constructed on the coaching_state.json of earlier processes that
\* assessed an empty store n times.
InitHistory ==
    \E n \in LongHistories :
        /\ now = T0
        /\ alive = TRUE
        /\ events = EmptyEvents
        /\ sessions = Json(<<>>)
        /\ stats = Json(EmptyStats)
        /\ tSession = <<>>
        /\ eventsFile = Json(EmptyEvents)
        /\ sessionsFile = Json(<<>>)
        /\ statsFile = Json(EmptyStats)
        /\ state = CoachingState(0, 0, 0, <<n>>, OldHistory(n), EmptyDict)
        /\ stateFile = SaveState(CoachingState(0, 0, 0, <<n>>, OldHistory(n), EmptyDict))
        /\ cSession = <<>>
        /\ cachedReport = <<>>
        /\ cacheTime = <<>>
        /\ trendHist = EmptyTrend
        /\ ret = Ret("construct", "returned", NoValue)

\* Reports, resets and re-engagements over a quarter of an hour.
NextHistory ==
    \/ GetFadeStatus
    \/ \E k \in ResetArgs : ResetSkillTracking(k)
    \/ \E k \in ReEngageSkills : ForceReEngagement(k)
    \/ \E d \in TickSteps : TickWithin(d, MaxLater)

SpecHistory == InitHistory /\ [][NextHistory]_vars

\* The step computed a report: the cache holds a report it did not hold before.
ReportComputed ==
    /\ cachedReport' # <<>>
    /\ cachedReport = <<>> \/ cacheTime' # cacheTime

\* The entry _get_difficulty_report appends for the skill k at a cache miss.
EntryOf(report, k, t) ==
    [date |-> t, score |-> report.skills[k].score, trend |-> report.skills[k].trend]

\* C23: the score history of every skill, in memory and on disk, holds at most
\* 100 entries in the order of their assessments; a step that computes a report
\* appends one entry per skill and keeps the last 100, and saves the history; a
\* request served from the cache leaves every history as it was.
C23_HistoryCappedAndOrdered ==
    /\ [](\A k \in DOMAIN state.skill_history :
             /\ Len(state.skill_history[k]) <= HISTORY_CAP
             /\ \A i, j \in DOMAIN state.skill_history[k] :
                   i < j => state.skill_history[k][i].date <= state.skill_history[k][j].date)
    /\ [](\A k \in DOMAIN Persisted.state.skill_history :
             Len(Persisted.state.skill_history[k]) <= HISTORY_CAP)
    /\ [][IF ReportComputed
          THEN /\ \A k \in Skills :
                     state'.skill_history[k]
                        = LastN(Append(Get(state.skill_history, k, <<>>),
                                       EntryOf(cachedReport'[1], k, now)),
                                HISTORY_CAP)
               /\ Persisted'.state.skill_history = state'.skill_history
          ELSE ret'.op = "get_fade_status"
               => state'.skill_history = state.skill_history]_vars

\* C23 (witness): a history of 100 entries took one more: it holds 100, the
\* oldest of them the second of the earlier ones and the newest made now.
C23_Witness ==
    /\ cachedReport # <<>>
    /\ cacheTime = <<now>>
    /\ Len(state.skill_history["search_ability"]) = HISTORY_CAP
    /\ state.skill_history["search_ability"][1].date = 2
    /\ state.skill_history["search_ability"][HISTORY_CAP].date = now
    /\ Persisted.state.skill_history = state.skill_history

\* ------------------------------------------------- the trend over the calls
\* The scores one skill is assessed with, call after call.
TrendScores == {0, SCALE}

\* A detector constructed with empty trend histories.
InitTrend ==
    /\ now = T0
    /\ alive = TRUE
    /\ events = EmptyEvents
    /\ sessions = Json(<<>>)
    /\ stats = Json(EmptyStats)
    /\ tSession = <<>>
    /\ eventsFile = Json(EmptyEvents)
    /\ sessionsFile = Json(<<>>)
    /\ statsFile = Json(EmptyStats)
    /\ state = DefaultState
    /\ stateFile = Absent
    /\ cSession = <<>>
    /\ cachedReport = <<>>
    /\ cacheTime = <<>>
    /\ trendHist = EmptyTrend
    /\ ret = Ret("construct", "returned", NoValue)

\* _calculate_trend("search_ability", current_score).
CalculateTrendCall(current_score) ==
    /\ alive
    /\ trendHist' = [trendHist EXCEPT !["search_ability"] =
                        CalculateTrend(trendHist["search_ability"], current_score).hist]
    /\ ret' = Ret("_calculate_trend", "returned",
                  [score |-> current_score,
                   trend |-> CalculateTrend(trendHist["search_ability"], current_score).trend])
    /\ UNCHANGED <<now, alive, trackerMem, trackerFiles, state, stateFile, cSession,
                   cachedReport, cacheTime>>

NextTrend == \E s \in TrendScores : CalculateTrendCall(s)

SpecTrend == InitTrend /\ [][NextTrend]_vars

\* C24: the trend a call returns is the trend of the 10 most recent scores,
\* the current one included: "new" below 3 scores, else the mean of the last 3
\* against the mean of the at most 7 before them.
C24_TrendOfLastTen ==
    [][ret'.op = "_calculate_trend"
       => ret'.value.trend
            = TrendOf(LastN(Append(trendHist["search_ability"], ret'.value.score),
                            TREND_CAP))]_vars

\* C24 (witness): ten scores of 1.0 are stored after an eleventh-last score of
\* 0.0, and the call returned "improving".
C24_Witness ==
    /\ ret.op = "_calculate_trend"
    /\ ret.value.trend = "improving"
    /\ trendHist["search_ability"] = Repeat(SCALE, TREND_CAP)

\* ------------------------------------------------- the report cache
\* The stretch of time watched: two cache durations.
CacheSpan == 2 * CACHE_MINUTES

\* The requests that read the report.
ReportReaders == {"get_fade_status", "get_status"}

\* A store of tidy renames read through reports, with resets, re-engagements
\* and clock steps on both sides of the cache duration.
NextCache ==
    \/ GetFadeStatus
    \/ GetStatus
    \/ ResetSkillTracking(<<>>)
    \/ \E k \in ReEngageSkills : ForceReEngagement(k)
    \/ \E d \in ViewTicks : TickWithin(d, CacheSpan)

SpecCache == InitNaming /\ [][NextCache]_vars

\* C25: a get_fade_status or get_status is served from the cache only when the cached report
\* was computed less than 5 minutes earlier and no reset_skill_tracking or
\* force_re_engagement came since (these empty the cache), and then nothing
\* changes; otherwise the assessor runs once (the trend history of a skill with
\* enough samples takes exactly one score) and its report is cached at the time
\* of the request.
C25_CacheServesOnlyFresh ==
    [][/\ ret'.op \in {"reset_skill_tracking", "force_re_engagement"} => cachedReport' = <<>>
       /\ (ret'.op \in ReportReaders /\ now' = now /\ ret' # ret) =>
             IF /\ cachedReport # <<>>
                /\ cacheTime # <<>>
                /\ now - cacheTime[1] < CACHE_MINUTES
                /\ ret.op \notin {"reset_skill_tracking", "force_re_engagement"}
             THEN UNCHANGED <<cachedReport, cacheTime, trendHist, state, stateFile>>
             ELSE /\ cachedReport' = <<AssessAllSkills(events, stats, trendHist, now).report>>
                  /\ cacheTime' = <<now>>
                  /\ trendHist'["naming_consistency"]
                        = LastN(Append(trendHist["naming_consistency"],
                                       cachedReport'[1].skills["naming_consistency"].score),
                                TREND_CAP)
                  /\ state'.last_assessment = <<now>>]_vars

\* C25 (witness): a report was computed at a request made exactly 5 minutes
\* after the previous computation, with no reset in between.
C25_Witness ==
    /\ ret.op \in ReportReaders
    /\ cacheTime = <<now>>
    /\ Len(state.skill_history["naming_consistency"]) = 2
    /\ state.skill_history["naming_consistency"][1].date = now - CACHE_MINUTES

\* ------------------------------------------------- the reference mapping
\* C26: for every score, confidence and trend, _calculate_intensity returns the
\* intensity and level of the table: base (1.0, struggling) below 0.4, (0.7,
\* learning) below 0.7, (0.3, proficient) below 0.85, else (0.1, mastered);
\* regressing adds 0.2 up to 1.0 and turns mastered into proficient, improving
\* takes 0.1 off down to 0.0; confidence below 0.5 raises the result to at least
\* 0.7, so that no assessment of low confidence gets less than 0.7.
C26_IntensityMatchesReference ==
    ret.op = "_calculate_intensity" =>
        \A p \in {<<ret.value.first, ret.value.of_first>>,
                  <<ret.value.second, ret.value.of_second>>} :
            LET a == p[1]
                base == CASE a.score < 400 -> <<1000, "struggling">>
                          [] a.score >= 400 /\ a.score < 700 -> <<700, "learning">>
                          [] a.score >= 700 /\ a.score < 850 -> <<300, "proficient">>
                          [] a.score >= 850 -> <<100, "mastered">>
                moved == CASE a.trend = "regressing" ->
                                  IF base[1] + 200 > 1000 THEN 1000 ELSE base[1] + 200
                           [] a.trend = "improving" ->
                                  IF base[1] - 100 < 0 THEN 0 ELSE base[1] - 100
                           [] a.trend \in {"new", "stable"} -> base[1]
                level == IF a.trend = "regressing" /\ base[2] = "mastered"
                         THEN "proficient" ELSE base[2]
            IN /\ p[2].level = level
               /\ p[2].intensity = IF a.confidence < 500 /\ moved < 700 THEN 700 ELSE moved
               /\ a.confidence < 500 => p[2].intensity >= 700

\* C26 (witness): two assessments of low confidence, an improving mastered one
\* and a regressing mastered one, both got 0.7, the second as proficient.
C26_Witness ==
    /\ ret.op = "_calculate_intensity"
    /\ ret.value.first.confidence < 500
    /\ ret.value.first.score >= SKILL_PROFICIENT
    /\ ret.value.first.trend = "improving"
    /\ ret.value.of_first = [intensity |-> INTENSITY_REGULAR, level |-> "mastered"]
    /\ ret.value.second.trend = "regressing"
    /\ ret.value.second.score >= SKILL_PROFICIENT
    /\ ret.value.of_second = [intensity |-> INTENSITY_REGULAR, level |-> "proficient"]

\* ------------------------------------------------- the trailing window
\* Events recorded at minute 0, which the first clock reading finds exactly 30
\* days old: a rename to an untidy name, a minute spent navigating.
OldRename == [MessyRename EXCEPT !.timestamp = 0, !.session_id = 0]
OldLook == NavigationEvent(0, 60, 0)

\* How many old events of each kind a log starts with.
OldCounts == 0..3

\* The event log without the events that fell out of the window at time t.
WithoutOld(ev, t) ==
    [searches |-> SelectSeq(ev.searches, LAMBDA e : InWindow(e, t)),
     file_accesses |-> SelectSeq(ev.file_accesses, LAMBDA e : InWindow(e, t)),
     navigation |-> SelectSeq(ev.navigation, LAMBDA e : InWindow(e, t)),
     decisions |-> SelectSeq(ev.decisions, LAMBDA e : InWindow(e, t))]

\* The read queries of the tracker and the assessment built on them.
WindowedOps == {"get_search_patterns", "get_file_patterns", "get_naming_preferences",
                "get_suggestion_effectiveness", "assess_all_skills"}

\* The result of the query op over the event log ev at time t.
QueryOn(op, ev, t) ==
    CASE op = "get_search_patterns" -> GetSearchPatterns(ev, t)
      [] op = "get_file_patterns" -> GetFilePatterns(ev, t)
      [] op = "get_naming_preferences" -> GetNamingPreferences(ev)
      [] op = "get_suggestion_effectiveness" -> GetSuggestionEffectiveness(stats.data)
      [] op = "assess_all_skills" -> AssessAllSkills(ev, stats, EmptyTrend, t).report.skills

\* A store holding o old renames, q old navigation events and s old searches,
\* followed by yesterday's: 3 good searches, 5 tidy renames, 5 quick looks.
InitWindow ==
    \E o \in OldCounts, q \in OldCounts, s \in OldCounts :
        InitOn([StoreOf(Repeat(OldSearch, s) \o Repeat(GoodSearch, 3),
                        Repeat(OldRename, o) \o Repeat(TidyRename, 5),
                        Repeat(OldLook, q) \o Repeat(QuickLook(10), 5))
                EXCEPT !.stats.first_seen = IF o + q + s > 0 THEN <<0>> ELSE @])

\* The query op answered over the store, next to its answer over the same
\* store without the events older than the window.
CompareLogs(op) ==
    /\ alive
    /\ ret' = Ret(op, "returned",
                  [got |-> QueryOn(op, events, now),
                   pruned |-> QueryOn(op, WithoutOld(events, now), now)])
    /\ UNCHANGED <<now, alive, trackerMem, trackerFiles, coachMem, stateFile>>

NextWindow == \E op \in WindowedOps : CompareLogs(op)

SpecWindow == InitWindow /\ [][NextWindow]_vars

\* C27: events older than the trailing 30 days influence no read query and no
\* assessment: each query answers the same over two logs that differ only in
\* such events; and no query changes the store.
C27_OldEventsHaveNoInfluence ==
    /\ [](ret.op \in WindowedOps => ret.value.got = ret.value.pruned)
    /\ [][UNCHANGED <<trackerMem, trackerFiles>>]_vars

\* C27 (witness): get_naming_preferences counted renames made 30 days ago.
C27_Witness ==
    /\ ret.op = "get_naming_preferences"
    /\ ret.value.pruned.sample_size = 5
    /\ ret.value.got.sample_size = 8
    /\ ret.value.got.uses_hyphens = 3

\* ------------------------------------------------- clearing the data
\* Sessions with searches within one minute, the data cleared at any moment.
NextClear ==
    \/ StartSession
    \/ \E clicked \in BOOLEAN : RecordSearch(clicked, FALSE)
    \/ ClearAllData
    \/ EndSession

SpecClear == Init /\ [][NextClear]_vars

\* C28: after clear_all_data nothing recorded before it is in the store, in
\* memory or on disk: the store is empty when the call returns, and an
\* end_session that follows it stores no session holding events.
C28_ClearedDataStaysGone ==
    /\ [](ret.op = "clear_all_data" =>
             /\ events = EmptyEvents
             /\ sessions = Json(<<>>)
             /\ eventsFile = Json(EmptyEvents)
             /\ sessionsFile = Json(<<>>))
    /\ [][(ret.op = "clear_all_data" /\ ret'.op = "end_session") =>
             /\ \A i \in DOMAIN sessions'.data : sessions'.data[i].searches = <<>>
             /\ \A i \in DOMAIN sessionsFile'.data : sessionsFile'.data[i].searches = <<>>]_vars

\* C28 (witness): the event log is empty while the session list, in memory and
\* on disk, holds a session with a search.
C28_Witness ==
    /\ ret.op = "end_session"
    /\ events = EmptyEvents
    /\ eventsFile = Json(EmptyEvents)
    /\ sessions.data # <<>>
    /\ sessions.data[1].searches # <<>>
    /\ sessionsFile = sessions

\* ------------------------------------------------- sessions kept
\* C30: a session that is open and holds at least one search is, after any
\* step, either still the open session with those searches or in the session
\* list with them; and the session list loses no session.  In particular
\* start_session on an open session does not discard it.
C30_OpenedSessionsAreKept ==
    [][/\ (tSession # <<>> /\ tSession[1].searches # <<>>) =>
             \/ /\ tSession' # <<>>
                /\ tSession'[1].session_id = tSession[1].session_id
                /\ FirstN(tSession'[1].searches, Len(tSession[1].searches))
                      = tSession[1].searches
             \/ /\ IsJson(sessions')
                /\ \E i \in DOMAIN sessions'.data :
                      /\ sessions'.data[i].session_id = tSession[1].session_id
                      /\ sessions'.data[i].searches = tSession[1].searches
       /\ (IsJson(sessions) /\ IsJson(sessions')) =>
             FirstN(sessions'.data, Len(sessions.data)) = sessions.data]_vars

\* C30 (witness): start_session returned, the open session holds nothing, the
\* log holds a search made since the first clock reading and the session list
\* is empty.
C30_Witness ==
    /\ ret.op = "start_session"
    /\ ret.outcome = "returned"
    /\ tSession # <<>>
    /\ tSession[1].searches = <<>>
    /\ \E i \in DOMAIN events.searches : events.searches[i].timestamp >= T0
    /\ sessions = Json(<<>>)

\* ------------------------------------------------- search tips
\* A store of LAST_N searches made yesterday, f of them without a click.
InitTip ==
    \E f \in 0..LAST_N :
        InitOn(StoreOf(Repeat(FailedSearch, f) \o Repeat(GoodSearch, LAST_N - f), <<>>, <<>>))

\* Search tips asked for over a quarter of an hour.
NextTip ==
    \/ GetSearchTip
    \/ \E d \in TickSteps : TickWithin(d, MaxLater)

SpecTip == InitTip /\ [][NextTip]_vars

\* C29: get_search_tip returns a tip only when the level computed for
\* search_ability is "struggling" or "learning"; at the levels "proficient" and
\* "mastered" it returns none, whatever the result count.
C29_TipsOnlyWhenStruggling ==
    (/\ ret.op = "get_search_tip"
     /\ ret.outcome = "returned"
     /\ ret.value # <<>>
     /\ cachedReport # <<>>)
    => CalculateIntensity(cachedReport[1].skills["search_ability"]).level
          \in {"struggling", "learning"}

\* C29 (witness): a search without results got the "no_results" tip at the
\* level "proficient", assessed with confidence 0.5.
C29_Witness ==
    /\ ret.op = "get_search_tip"
    /\ ret.value = <<[type |-> "no_results", intensity |-> INTENSITY_OCCASIONAL]>>
    /\ cachedReport # <<>>
    /\ cachedReport[1].skills["search_ability"].confidence >= SCALE \div 2
    /\ CalculateIntensity(cachedReport[1].skills["search_ability"]).level = "proficient"

====
